---- MODULE Spec2Model ----
(***************************************************************************)
(* Expense storage and recurrence materialisation: the file-backed store   *)
(* (jsonStore), the relational store (databaseStore) and the recurrence    *)
(* engine generateExpensesFromRecurring.                                   *)
(*                                                                         *)
(* Conventions of the model                                                *)
(*   - an identifier is a natural number; 0 is the empty string "";        *)
(*     caller-supplied identifiers are small numbers, generated ones       *)
(*     (uuid.New()) are UuidBase + n for a counter n that only grows;      *)
(*   - an instant (time.Time) is a whole number of days since 2024-01-01;  *)
(*     ZeroTime is Go's zero time.Time;                                    *)
(*   - an amount is a whole number of cents.                               *)
(***************************************************************************)
EXTENDS Integers, Sequences, FiniteSets, TLC

VARIABLES
    xin,     \* recurrence engine: the call's input [rule, today, fromToday]
    xout,    \* recurrence engine: the call's result, or NoResult

    js,      \* file-backed store: the two documents and the defaults map
    db,      \* relational store: the three tables and the defaults map
    now,     \* the clock read by time.Now()
    uuid,    \* the number of identifiers uuid.New() has handed out
    calls,   \* the number of contract calls made
    last,    \* the last contract call: its arguments, pre-state and outcome

    mu,      \* jsonStore.mu: the writer holding it (0: none) and its readers
    pcs      \* concurrent callers: each one's call, position and local copies

vars == <<xin, xout, js, db, now, uuid, calls, last, mu, pcs>>

\* ------------------------------------------------------------------ bounds

\* Largest occurrence count of a rule.
MaxOcc == 3

\* Contract calls in one behaviour.
MaxCalls == 2

\* Days the clock advances in one behaviour.
MaxTicks == 1

\* ---------------------------------------------------------------- calendar

EpochYear == 2024

ZeroTime == -738885

IsLeap(y) == (y % 4 = 0 /\ y % 100 # 0) \/ y % 400 = 0

DaysIn(y, m) ==
    IF m = 2 THEN (IF IsLeap(y) THEN 29 ELSE 28)
    ELSE IF m \in {4, 6, 9, 11} THEN 30 ELSE 31

DaysInYear(y) == IF IsLeap(y) THEN 366 ELSE 365

RECURSIVE DaysBeforeYear(_)
DaysBeforeYear(y) ==
    IF y <= EpochYear THEN 0 ELSE DaysBeforeYear(y - 1) + DaysInYear(y - 1)

RECURSIVE DaysBeforeMonth(_, _)
DaysBeforeMonth(y, m) ==
    IF m <= 1 THEN 0 ELSE DaysBeforeMonth(y, m - 1) + DaysIn(y, m - 1)

\* time.Date(y, m, d, ...): a month past December carries into the year, a day
\* past the end of the month carries into the following months.
Date(y, m, d) ==
    LET yy == y + ((m - 1) \div 12)
        mm == ((m - 1) % 12) + 1
    IN  DaysBeforeYear(yy) + DaysBeforeMonth(yy, mm) + (d - 1)

YearOf(t) ==
    CHOOSE y \in EpochYear..(EpochYear + 12) :
        DaysBeforeYear(y) <= t /\ t < DaysBeforeYear(y + 1)

MonthOf(t) ==
    LET y == YearOf(t)
        r == t - DaysBeforeYear(y)
    IN  CHOOSE m \in 1..12 :
            DaysBeforeMonth(y, m) <= r /\ r < DaysBeforeMonth(y, m) + DaysIn(y, m)

DayOf(t) ==
    LET y == YearOf(t)
    IN  t - DaysBeforeYear(y) - DaysBeforeMonth(y, MonthOf(t)) + 1

\* time.Time.AddDate(years, months, days)
AddDate(t, years, months, days) ==
    Date(YearOf(t) + years, MonthOf(t) + months, DayOf(t) + days)

\* ------------------------------------------------------------ record model

EmptyId == 0

UuidBase == 100

\* uuid.New().String() for the n-th identifier handed out
NewUuid(n) == UuidBase + n

ValidIntervals == {"daily", "weekly", "monthly", "yearly"}

\* ------------------------------------------------------- recurrence engine

\* The interval switch of generateExpensesFromRecurring: the next date.
StepWrongWeek(interval, t) ==
    CASE interval = "daily"   -> AddDate(t, 0, 0, 1)
      [] interval = "weekly"  -> AddDate(t, 0, 0, 6)
      [] interval = "monthly" -> AddDate(t, 0, 1, 0)
      [] interval = "yearly"  -> AddDate(t, 1, 0, 0)
      [] OTHER                -> t

Step(interval, t) ==
    CASE interval = "daily"   -> AddDate(t, 0, 0, 1)
      [] interval = "weekly"  -> AddDate(t, 0, 0, 7)
      [] interval = "monthly" -> AddDate(t, 0, 1, 0)
      [] interval = "yearly"  -> AddDate(t, 1, 0, 0)
      [] OTHER                -> t

\* The fromToday loop: advance the cursor while it is before today and the
\* budget lasts.  stop: the interval was not recognised (return at once);
\* skipped: the number of steps taken.
RECURSIVE FastForward(_, _, _, _, _)
FastForward(recExp, cur, today, togo, skipped) ==
    IF cur < today /\ (recExp.Occurrences = 0 \/ togo > 0)
    THEN IF recExp.Interval \notin ValidIntervals
         THEN [stop |-> TRUE, cur |-> cur, togo |-> togo, skipped |-> skipped]
         ELSE FastForward(recExp, Step(recExp.Interval, cur), today,
                          IF recExp.Occurrences > 0 THEN togo - 1 ELSE togo,
                          skipped + 1)
    ELSE [stop |-> FALSE, cur |-> cur, togo |-> togo, skipped |-> skipped]

ExpenseOf(recExp, id, date) ==
    [ID          |-> id,
     RecurringID |-> recExp.ID,
     Name        |-> recExp.Name,
     Category    |-> recExp.Category,
     Amount      |-> recExp.Amount,
     Currency    |-> recExp.Currency,
     Date        |-> date,
     Tags        |-> recExp.Tags]

\* The emitting loop (for range limit): the i-th record takes the i-th fresh
\* identifier; an unrecognised interval returns after the record just appended.
RECURSIVE Emit(_, _, _, _, _)
Emit(recExp, cur, i, limit, n) ==
    IF i >= limit THEN << >>
    ELSE LET e == ExpenseOf(recExp, NewUuid(n + i), cur)
         IN  IF recExp.Interval \notin ValidIntervals
             THEN <<e>>
             ELSE <<e>> \o Emit(recExp, Step(recExp.Interval, cur), i + 1, limit, n)

\* A variant that goes on to the emitting loop after the fromToday loop met
\* an interval it does not recognise.
generateExpensesNoStop(recExp, fromToday, today, n) ==
    LET ff == IF fromToday
              THEN FastForward(recExp, recExp.StartDate, today, recExp.Occurrences, 0)
              ELSE [stop |-> FALSE, cur |-> recExp.StartDate,
                    togo |-> recExp.Occurrences, skipped |-> 0]
    IN  Emit(recExp, ff.cur, 0, ff.togo, n)

\* generateExpensesFromRecurring(recExp, fromToday) with time.Now() = today and
\* n identifiers handed out so far.
generateExpensesFromRecurring(recExp, fromToday, today, n) ==
    LET ff == IF fromToday
              THEN FastForward(recExp, recExp.StartDate, today, recExp.Occurrences, 0)
              ELSE [stop |-> FALSE, cur |-> recExp.StartDate,
                    togo |-> recExp.Occurrences, skipped |-> 0]
    IN  IF ff.stop THEN << >>
        ELSE Emit(recExp, ff.cur, 0, ff.togo, n)

\* The number of steps the fromToday loop took.
SkippedBy(recExp, fromToday, today) ==
    IF fromToday
    THEN FastForward(recExp, recExp.StartDate, today, recExp.Occurrences, 0).skipped
    ELSE 0

\* ------------------------------------------------------------ sequences

\* The elements of s, in order, whose index is in keep.
RECURSIVE SubSeqOf(_, _, _)
SubSeqOf(s, keep, i) ==
    IF i > Len(s) THEN << >>
    ELSE (IF i \in keep THEN <<s[i]>> ELSE << >>) \o SubSeqOf(s, keep, i + 1)

Range(s) == { s[i] : i \in DOMAIN s }

Max(a, b) == IF a >= b THEN a ELSE b

\* ------------------------------------------------------------------ config

defaultCategories ==
    <<"Food", "Groceries", "Travel", "Rent", "Utilities", "Entertainment",
      "Healthcare", "Shopping", "Miscellaneous", "Income">>

SupportedCurrencies ==
    {"usd", "eur", "gbp", "jpy", "cny", "krw", "inr", "rub", "brl", "zar",
     "aed", "aud", "cad", "chf", "hkd", "bdt", "sgd", "thb", "try", "mxn",
     "php", "pln", "sek", "nzd", "dkk", "idr", "ils", "vnd", "myr"}

\* Config.SetBaseConfig
SetBaseConfig ==
    [Categories        |-> defaultCategories,
     Currency          |-> "usd",
     StartDate         |-> 1,
     RecurringExpenses |-> << >>]

\* The defaults map of a store just constructed: no key is set, and a lookup
\* of a missing key yields "".
NoDefaults == [currency |-> "", start_date |-> ""]

\* ------------------------------------------------------- file-backed store
\* A store is [expenses, config, defaults]: the expenses document, the config
\* document and the defaults map.  Each handler is split where it reads and
\* writes a document: the operators named ...Cfg and ...Exp compute the
\* document written from the document read; the operator named after the
\* handler is the whole call, run alone.

\* InitializeJsonStore on an empty directory.
InitializeJsonStore ==
    [expenses |-> << >>, config |-> SetBaseConfig, defaults |-> NoDefaults]

Ok(st) == [st |-> st, err |-> "ok", used |-> 0]

Fail(st, err) == [st |-> st, err |-> err, used |-> 0]

UpdateCategoriesCfg(config, categories) ==
    [config EXCEPT !.Categories = categories]

JsonUpdateCategories(s, categories) ==
    Ok([s EXCEPT !.config = UpdateCategoriesCfg(@, categories)])

UpdateCurrencyCfg(config, currency) == [config EXCEPT !.Currency = currency]

\* A variant that takes any currency.
JsonUpdateCurrencyUnchecked(s, currency) ==
    Ok([s EXCEPT !.config = UpdateCurrencyCfg(@, currency),
                 !.defaults.currency = currency])

JsonUpdateCurrency(s, currency) ==
    IF currency \notin SupportedCurrencies THEN Fail(s, "invalid")
    ELSE Ok([s EXCEPT !.config = UpdateCurrencyCfg(@, currency),
                      !.defaults.currency = currency])

UpdateStartDateCfg(config, startDate) == [config EXCEPT !.StartDate = startDate]

JsonUpdateStartDate(s, startDate) ==
    IF startDate < 1 \/ startDate > 31 THEN Fail(s, "invalid")
    ELSE Ok([s EXCEPT !.config = UpdateStartDateCfg(@, startDate),
                      !.defaults.start_date = ToString(startDate)])

\* AddExpense, lines 462-471: the defaults filled in, the record appended.
FillExpense(e, defaults, today, n) ==
    [e EXCEPT !.ID = IF @ = EmptyId THEN NewUuid(n) ELSE @,
              !.Currency = IF @ = "" THEN defaults.currency ELSE @,
              !.Date = IF @ = ZeroTime THEN today ELSE @]

AddExpenseExp(data, defaults, e, today, n) ==
    Append(data, FillExpense(e, defaults, today, n))

JsonAddExpense(s, e, today, n) ==
    [st   |-> [s EXCEPT !.expenses = AddExpenseExp(@, s.defaults, e, today, n)],
     err  |-> "ok",
     used |-> IF e.ID = EmptyId THEN 1 ELSE 0]

\* RemoveExpense: make([]Expense, 0, len-1) panics on an empty collection.
RemoveExpenseExp(data, id) ==
    SubSeqOf(data, { i \in DOMAIN data : data[i].ID # id }, 1)

JsonRemoveExpense(s, id) ==
    IF Len(s.expenses) = 0 THEN Fail(s, "panic")
    ELSE IF \A i \in DOMAIN s.expenses : s.expenses[i].ID # id
    THEN Fail(s, "notfound")
    ELSE Ok([s EXCEPT !.expenses = RemoveExpenseExp(@, id)])

\* AddMultipleExpenses takes no lock and fills no default.
AddMultipleExpensesExp(data, expensesToAdd) == data \o expensesToAdd

JsonAddMultipleExpenses(s, expensesToAdd) ==
    IF Len(expensesToAdd) = 0 THEN Ok(s)
    ELSE Ok([s EXCEPT !.expenses = AddMultipleExpensesExp(@, expensesToAdd)])

RemoveMultipleExpensesExp(data, ids) ==
    SubSeqOf(data, { i \in DOMAIN data : data[i].ID \notin Range(ids) }, 1)

JsonRemoveMultipleExpenses(s, ids) ==
    IF Len(ids) = 0 THEN Ok(s)
    ELSE Ok([s EXCEPT !.expenses = RemoveMultipleExpensesExp(@, ids)])

\* A variant that takes the record out and appends its replacement.
UpdateExpenseExpAtEnd(data, defaults, id, e) ==
    LET hits == { i \in DOMAIN data : data[i].ID = id }
        i    == CHOOSE j \in hits : \A k \in hits : j <= k
    IN  SubSeqOf(data, DOMAIN data \ {i}, 1)
        \o <<[e EXCEPT !.ID = id,
                       !.Currency = IF @ = "" THEN defaults.currency ELSE @]>>

\* UpdateExpense: the first record with the identifier is replaced.
UpdateExpenseExp(data, defaults, id, e) ==
    LET hits == { i \in DOMAIN data : data[i].ID = id }
        i    == CHOOSE j \in hits : \A k \in hits : j <= k
    IN  [data EXCEPT ![i] = [e EXCEPT !.ID = id,
                                      !.Currency = IF @ = "" THEN defaults.currency
                                                   ELSE @]]

JsonUpdateExpense(s, id, e) ==
    IF \A i \in DOMAIN s.expenses : s.expenses[i].ID # id
    THEN Fail(s, "notfound")
    ELSE Ok([s EXCEPT !.expenses = UpdateExpenseExp(@, s.defaults, id, e)])

\* The rule as AddRecurringExpense stores it (lines 325-330).
FillRule(r, defaults, n) ==
    [r EXCEPT !.ID = IF @ = EmptyId THEN NewUuid(n) ELSE @,
              !.Currency = IF @ = "" THEN defaults.currency ELSE @]

RuleUsed(r) == IF r.ID = EmptyId THEN 1 ELSE 0

AddRecurringExpenseCfg(config, rule) ==
    [config EXCEPT !.RecurringExpenses = Append(@, rule)]

\* A variant that copies in only the occurrences from today on.
JsonAddRecurringExpenseFromToday(s, recurringExpense, today, n) ==
    LET rule == FillRule(recurringExpense, s.defaults, n)
        n1   == n + RuleUsed(recurringExpense)
        expensesToAdd == generateExpensesFromRecurring(rule, TRUE, today, n1)
        s1   == [s EXCEPT !.config = AddRecurringExpenseCfg(@, rule)]
    IN  [st   |-> JsonAddMultipleExpenses(s1, expensesToAdd).st,
         err  |-> "ok",
         used |-> RuleUsed(recurringExpense) + Len(expensesToAdd)]

JsonAddRecurringExpense(s, recurringExpense, today, n) ==
    LET rule == FillRule(recurringExpense, s.defaults, n)
        n1   == n + RuleUsed(recurringExpense)
        expensesToAdd == generateExpensesFromRecurring(rule, FALSE, today, n1)
        s1   == [s EXCEPT !.config = AddRecurringExpenseCfg(@, rule)]
    IN  [st   |-> JsonAddMultipleExpenses(s1, expensesToAdd).st,
         err  |-> "ok",
         used |-> RuleUsed(recurringExpense) + Len(expensesToAdd)]

HasRule(config, id) ==
    \E i \in DOMAIN config.RecurringExpenses : config.RecurringExpenses[i].ID = id

RemoveRecurringExpenseCfg(config, id) ==
    [config EXCEPT !.RecurringExpenses =
        SubSeqOf(@, { i \in DOMAIN @ : @[i].ID # id }, 1)]

\* A variant that keeps only the instances dated before today.
KeptExpensesBeforeToday(data, id, all, today) ==
    SubSeqOf(data,
             { i \in DOMAIN data :
                 \/ data[i].RecurringID # id
                 \/ (~all /\ data[i].Date < today) },
             1)

\* The instances a rule update or removal keeps: those of other rules, and,
\* unless all are to go, those of the rule that are not after today.
KeptExpenses(data, id, all, today) ==
    SubSeqOf(data,
             { i \in DOMAIN data :
                 \/ data[i].RecurringID # id
                 \/ (~all /\ ~(data[i].Date > today)) },
             1)

\* A variant that drops the instances before it looks for the rule.
JsonRemoveRecurringExpenseCascadeFirst(s, id, removeAll, today) ==
    IF ~HasRule(s.config, id)
    THEN Fail([s EXCEPT !.expenses = KeptExpenses(@, id, removeAll, today)],
              "notfound")
    ELSE Ok([s EXCEPT !.expenses = KeptExpenses(@, id, removeAll, today),
                      !.config = RemoveRecurringExpenseCfg(@, id)])

JsonRemoveRecurringExpense(s, id, removeAll, today) ==
    IF ~HasRule(s.config, id) THEN Fail(s, "notfound")
    ELSE Ok([s EXCEPT !.expenses = KeptExpenses(@, id, removeAll, today),
                      !.config = RemoveRecurringExpenseCfg(@, id)])

\* The rule as UpdateRecurringExpense stores it (lines 391-394).
UpdatedRule(r, defaults, id) ==
    [r EXCEPT !.ID = id,
              !.Currency = IF @ = "" THEN defaults.currency ELSE @]

UpdateRecurringExpenseCfg(config, rule) ==
    LET rs   == config.RecurringExpenses
        hits == { i \in DOMAIN rs : rs[i].ID = rule.ID }
        i    == CHOOSE j \in hits : \A k \in hits : j <= k
    IN  [config EXCEPT !.RecurringExpenses[i] = rule]

\* A variant that always copies in from today on.
UpdateRecurringExpenseExpFromToday(data, rule, updateAll, today, n) ==
    KeptExpenses(data, rule.ID, updateAll, today)
        \o generateExpensesFromRecurring(rule, TRUE, today, n)

UpdateRecurringExpenseExp(data, rule, updateAll, today, n) ==
    KeptExpenses(data, rule.ID, updateAll, today)
        \o generateExpensesFromRecurring(rule, ~updateAll, today, n)

JsonUpdateRecurringExpense(s, id, recurringExpense, updateAll, today, n) ==
    IF ~HasRule(s.config, id) THEN Fail(s, "notfound")
    ELSE LET rule == UpdatedRule(recurringExpense, s.defaults, id)
             data == UpdateRecurringExpenseExp(s.expenses, rule, updateAll, today, n)
         IN  [st   |-> [s EXCEPT !.expenses = data,
                                 !.config = UpdateRecurringExpenseCfg(@, rule)],
              err  |-> "ok",
              used |-> Len(data) - Len(KeptExpenses(s.expenses, id, updateAll, today))]

\* GetExpense: the first record with the identifier, as it is stored.
NoExpense == [none |-> TRUE]

JsonGetExpense(s, id) ==
    LET hits == { i \in DOMAIN s.expenses : s.expenses[i].ID = id }
    IN  IF hits = {}
        THEN [st |-> s, err |-> "notfound", used |-> 0, got |-> NoExpense]
        ELSE [st |-> s, err |-> "ok", used |-> 0,
              got |-> s.expenses[CHOOSE i \in hits : \A k \in hits : i <= k]]

\* -------------------------------------------------------- relational store
\* A store is [expenses, recurring, config, defaults]: the rows of the tables
\* expenses and recurring_expenses (each keyed by id), the row 'default' of
\* the table config (NoRow before it is first saved) and the defaults map.

NoRow == [absent |-> TRUE]

\* InitializePostgresStore on an empty database.
InitializePostgresStore ==
    [expenses |-> {}, recurring |-> {}, config |-> NoRow, defaults |-> NoDefaults]

saveConfig(d, config) ==
    [d EXCEPT !.config = [Categories |-> config.Categories,
                          Currency   |-> config.Currency,
                          StartDate  |-> config.StartDate],
              !.defaults = [currency   |-> config.Currency,
                            start_date |-> ToString(config.StartDate)]]

\* GetConfig: a missing row is replaced by the base config, which is returned
\* as it is; otherwise the row is returned with the rules of the rule table.
DbGetConfig(d) ==
    IF d.config = NoRow
    THEN [st |-> saveConfig(d, SetBaseConfig), err |-> "ok",
          config |-> SetBaseConfig, rules |-> {}]
    ELSE [st |-> d, err |-> "ok",
          config |-> [Categories |-> d.config.Categories,
                      Currency   |-> d.config.Currency,
                      StartDate  |-> d.config.StartDate],
          rules |-> d.recurring]

DbUpdateCategories(d, categories) ==
    LET got == DbGetConfig(d)
    IN  Ok(saveConfig(got.st, [got.config EXCEPT !.Categories = categories]))

DbUpdateCurrency(d, currency) ==
    IF currency \notin SupportedCurrencies THEN Fail(d, "invalid")
    ELSE LET got == DbGetConfig(d)
         IN  Ok(saveConfig(got.st, [got.config EXCEPT !.Currency = currency]))

\* A variant that takes any day.
DbUpdateStartDateUnchecked(d, startDate) ==
    LET got == DbGetConfig(d)
    IN  Ok(saveConfig(got.st, [got.config EXCEPT !.StartDate = startDate]))

DbUpdateStartDate(d, startDate) ==
    IF startDate < 1 \/ startDate > 31 THEN Fail(d, "invalid")
    ELSE LET got == DbGetConfig(d)
         IN  Ok(saveConfig(got.st, [got.config EXCEPT !.StartDate = startDate]))

HasRow(rows, id) == \E x \in rows : x.ID = id

\* AddExpense: one INSERT; a row with the identifier already there violates
\* the primary key and the statement fails.
DbAddExpense(d, e, today, n) ==
    LET row == FillExpense(e, d.defaults, today, n)
    IN  [st   |-> IF HasRow(d.expenses, row.ID) THEN d
                  ELSE [d EXCEPT !.expenses = @ \cup {row}],
         err  |-> IF HasRow(d.expenses, row.ID) THEN "substrate" ELSE "ok",
         used |-> IF e.ID = EmptyId THEN 1 ELSE 0]

DbUpdateExpense(d, id, e) ==
    IF ~HasRow(d.expenses, id) THEN Fail(d, "notfound")
    ELSE Ok([d EXCEPT !.expenses =
                { x \in @ : x.ID # id }
                \cup {[e EXCEPT !.ID = id,
                                !.Currency = IF @ = "" THEN d.defaults.currency
                                             ELSE @]}])

DbRemoveExpense(d, id) ==
    IF ~HasRow(d.expenses, id) THEN Fail(d, "notfound")
    ELSE Ok([d EXCEPT !.expenses = { x \in @ : x.ID # id }])

\* AddMultipleExpenses: AddExpense row by row, stopping at the first failure
\* (the rows already inserted stay).
RECURSIVE DbAddMultipleFrom(_, _, _, _, _, _)
DbAddMultipleFrom(d, expenses, i, today, n, used) ==
    IF i > Len(expenses) THEN [st |-> d, err |-> "ok", used |-> used]
    ELSE LET r == DbAddExpense(d, expenses[i], today, n + used)
         IN  IF r.err # "ok"
             THEN [st |-> r.st, err |-> r.err, used |-> used + r.used]
             ELSE DbAddMultipleFrom(r.st, expenses, i + 1, today, n, used + r.used)

DbAddMultipleExpenses(d, expenses, today, n) ==
    DbAddMultipleFrom(d, expenses, 1, today, n, 0)

\* A variant that refuses an empty list.
DbRemoveMultipleExpensesNonEmpty(d, ids) ==
    IF Len(ids) = 0 THEN Fail(d, "invalid")
    ELSE Ok([d EXCEPT !.expenses = { x \in @ : x.ID \notin Range(ids) }])

DbRemoveMultipleExpenses(d, ids) ==
    IF Len(ids) = 0 THEN Ok(d)
    ELSE Ok([d EXCEPT !.expenses = { x \in @ : x.ID \notin Range(ids) }])

\* A variant that also deletes the rows dated today.
DeletedRowsFromToday(rows, id, all, today) ==
    { x \in rows : x.RecurringID = id /\ (all \/ x.Date >= today) }

\* The rows a rule update or removal deletes inside its transaction.
DeletedRows(rows, id, all, today) ==
    { x \in rows : x.RecurringID = id /\ (all \/ x.Date > today) }

\* AddRecurringExpense: the rule row and the copied-in instances are committed
\* together; a rule row with the identifier already there fails the INSERT and
\* the transaction is rolled back.
DbAddRecurringExpense(d, recurringExpense, today, n) ==
    LET rule == FillRule(recurringExpense, d.defaults, n)
        n1   == n + RuleUsed(recurringExpense)
        expensesToAdd == generateExpensesFromRecurring(rule, FALSE, today, n1)
    IN  IF HasRow(d.recurring, rule.ID)
        THEN [st |-> d, err |-> "substrate", used |-> RuleUsed(recurringExpense)]
        ELSE [st   |-> [d EXCEPT !.recurring = @ \cup {rule},
                                 !.expenses = @ \cup Range(expensesToAdd)],
              err  |-> "ok",
              used |-> RuleUsed(recurringExpense) + Len(expensesToAdd)]

DbUpdateRecurringExpense(d, id, recurringExpense, updateAll, today, n) ==
    IF ~HasRow(d.recurring, id) THEN Fail(d, "notfound")
    ELSE LET rule == UpdatedRule(recurringExpense, d.defaults, id)
             expensesToAdd == generateExpensesFromRecurring(rule, ~updateAll, today, n)
         IN  [st   |-> [d EXCEPT
                          !.recurring = { x \in @ : x.ID # id } \cup {rule},
                          !.expenses = (@ \ DeletedRows(@, id, updateAll, today))
                                       \cup Range(expensesToAdd)],
              err  |-> "ok",
              used |-> Len(expensesToAdd)]

DbRemoveRecurringExpense(d, id, removeAll, today) ==
    IF ~HasRow(d.recurring, id) THEN Fail(d, "notfound")
    ELSE Ok([d EXCEPT !.recurring = { x \in @ : x.ID # id },
                      !.expenses = @ \ DeletedRows(@, id, removeAll, today)])

\* scanExpense: the seven columns the queries select; the currency column is
\* not among them and the field keeps Go's zero value.
scanExpense(row) == [row EXCEPT !.Currency = ""]

DbGetExpense(d, id) ==
    IF ~HasRow(d.expenses, id)
    THEN [st |-> d, err |-> "notfound", used |-> 0, got |-> NoExpense]
    ELSE [st |-> d, err |-> "ok", used |-> 0,
          got |-> scanExpense(CHOOSE x \in d.expenses : x.ID = id)]

\* ------------------------------------------- specification: the engine alone

NoResult == [called |-> FALSE]

NoCall == [op |-> "none"]

RuleAttrs ==
    { [Name |-> "rent", Category |-> "Rent", Amount |-> -120000,
       Currency |-> "usd", Tags |-> <<"home">>],
      [Name |-> "pay", Category |-> "Income", Amount |-> 5000,
       Currency |-> "", Tags |-> << >>] }

MkRule(id, a, start, interval, occ) ==
    [ID          |-> id,
     Name        |-> a.Name,
     Amount      |-> a.Amount,
     Currency    |-> a.Currency,
     Tags        |-> a.Tags,
     Category    |-> a.Category,
     StartDate   |-> start,
     Interval    |-> interval,
     Occurrences |-> occ]

\* Inputs of the engine: every day of January 2024 and the leap day as start
\* date, the four intervals and an unrecognised one, clocks before, between and
\* after the occurrences.
XStarts == { Date(2024, 1, d) : d \in 1..31 } \cup { Date(2024, 2, 29) }

XIntervals == ValidIntervals \cup {"hourly"}

XNows == { Date(2024, 1, 1), Date(2024, 1, 17), Date(2024, 2, 15),
           Date(2024, 3, 1) }

XRules ==
    { MkRule(7, a, s, i, n) :
        a \in RuleAttrs, s \in XStarts, i \in XIntervals, n \in 0..MaxOcc }

NoCallers ==
    /\ mu = [writer |-> 0, readers |-> {}]
    /\ pcs = << >>

StoreIdle ==
    /\ js = [idle |-> TRUE]
    /\ db = [idle |-> TRUE]
    /\ now = 0
    /\ uuid = 0
    /\ calls = 0
    /\ last = NoCall
    /\ NoCallers

XInit ==
    /\ xin \in [rule : XRules, today : XNows, fromToday : BOOLEAN]
    /\ xout = NoResult
    /\ StoreIdle

\* One call of generateExpensesFromRecurring on the drawn input.
XCall ==
    /\ xout = NoResult
    /\ xout' = [called  |-> TRUE,
                out     |-> generateExpensesFromRecurring(xin.rule, xin.fromToday,
                                                          xin.today, 0),
                skipped |-> SkippedBy(xin.rule, xin.fromToday, xin.today)]
    /\ UNCHANGED <<xin, js, db, now, uuid, calls, last, mu, pcs>>

XNext == XCall

SpecExpand == XInit /\ [][XNext]_vars

XDone == xout.called

XValid == xin.rule.Interval \in ValidIntervals /\ xin.rule.Occurrences >= 2

\* The k-th date (k = 0, 1, ...) reached from t by whole days.
PlusDays(t, k) == t + k

StepDays(interval) == IF interval = "daily" THEN 1 ELSE 7

\* C3: for a daily or weekly rule with N >= 2 occurrences, expand(rule, false)
\* returns exactly N records in order, the k-th dated start + k steps (1 or 7
\* days), each with the rule's id as back-reference and the rule's name,
\* category, amount, currency and tags.
C3_DailyWeeklyExpansion ==
    (XDone /\ XValid /\ ~xin.fromToday /\ xin.rule.Interval \in {"daily", "weekly"})
    => /\ Len(xout.out) = xin.rule.Occurrences
       /\ \A k \in 1..Len(xout.out) :
            LET e == xout.out[k]
            IN  /\ e.Date = PlusDays(xin.rule.StartDate,
                                     (k - 1) * StepDays(xin.rule.Interval))
                /\ e.RecurringID = xin.rule.ID
                /\ e.Name = xin.rule.Name
                /\ e.Category = xin.rule.Category
                /\ e.Amount = xin.rule.Amount
                /\ e.Currency = xin.rule.Currency
                /\ e.Tags = xin.rule.Tags

C3_Witness ==
    /\ XDone /\ XValid /\ ~xin.fromToday
    /\ xin.rule.Interval = "weekly"
    /\ xin.rule.Occurrences = MaxOcc
    /\ xin.rule.StartDate = Date(2024, 1, 31)
    /\ Len(xout.out) = MaxOcc
    /\ xout.out[MaxOcc].Date > Date(2024, 2, 1)

\* C4 as claimed: for a monthly rule expand(rule, false) returns N records
\* whose k-th date is k calendar months after the start date on the start
\* date's day of the month, for every start day 1..31.
C4_MonthlySameDay ==
    (XDone /\ XValid /\ ~xin.fromToday /\ xin.rule.Interval = "monthly")
    => /\ Len(xout.out) = xin.rule.Occurrences
       /\ \A k \in 1..Len(xout.out) :
            /\ DayOf(xout.out[k].Date) = DayOf(xin.rule.StartDate)
            /\ 12 * YearOf(xout.out[k].Date) + MonthOf(xout.out[k].Date)
                 = 12 * YearOf(xin.rule.StartDate) + MonthOf(xin.rule.StartDate)
                   + (k - 1)

\* C5 as claimed: expand(rule, true) emits no record dated at or before now,
\* and emits max(0, N - skipped) records.
C5_FutureOnly ==
    (XDone /\ XValid /\ xin.fromToday)
    => /\ \A k \in 1..Len(xout.out) : xout.out[k].Date > xin.today
       /\ Len(xout.out) =
            IF xin.rule.Occurrences - xout.skipped > 0
            THEN xin.rule.Occurrences - xout.skipped ELSE 0

\* ------------------------------- specification: contract calls, one by one
\* Both stores receive the same calls, with the same clock and the same
\* generated identifiers.  A store is either new or reopened on the data an
\* earlier process left: the documents and tables are kept, the defaults map
\* starts empty.

Clock0 == Date(2024, 1, 10)

\* Rules a caller sends (without identifier).
SRuleInputs ==
    { MkRule(EmptyId, CHOOSE a \in RuleAttrs : a.Currency = "usd",
             Date(2024, 1, 3), "weekly", MaxOcc),
      MkRule(EmptyId, CHOOSE a \in RuleAttrs : a.Currency = "",
             Date(2024, 1, 9), "daily", 2),
      MkRule(EmptyId, CHOOSE a \in RuleAttrs : a.Currency = "usd",
             Date(2024, 1, 31), "monthly", 2) }

\* Expenses a caller sends: one with every default left to the store, one
\* with an identifier and a back-reference of the caller's.
SExpenseInputs ==
    { [ID |-> EmptyId, RecurringID |-> EmptyId, Name |-> "lunch",
       Category |-> "Food", Amount |-> 1250, Currency |-> "",
       Date |-> ZeroTime, Tags |-> << >>],
      [ID |-> 5, RecurringID |-> 1, Name |-> "rent", Category |-> "Rent",
       Amount |-> -120000, Currency |-> "eur", Date |-> Date(2024, 1, 20),
       Tags |-> <<"home">>] }

SeedRule == [(CHOOSE r \in SRuleInputs : r.Interval = "weekly") EXCEPT !.ID = 1]

SeedExpense == CHOOSE e \in SExpenseInputs : e.ID = EmptyId

\* What an earlier process left: rule 1 with its instances, and one expense.
EarlierJson ==
    LET a == JsonAddRecurringExpense(InitializeJsonStore, SeedRule, Clock0 - 1, 0)
        b == JsonAddExpense(a.st, SeedExpense, Clock0 - 1, a.used)
    IN  [st |-> [b.st EXCEPT !.defaults = NoDefaults], used |-> a.used + b.used]

EarlierDb ==
    LET a == DbAddRecurringExpense(InitializePostgresStore, SeedRule, Clock0 - 1, 0)
        b == DbAddExpense(a.st, SeedExpense, Clock0 - 1, a.used)
    IN  [st |-> [b.st EXCEPT !.defaults = NoDefaults], used |-> a.used + b.used]

EngineIdle ==
    /\ xin = [idle |-> TRUE]
    /\ xout = NoResult

SInit ==
    /\ EngineIdle
    /\ \E reopened \in BOOLEAN :
        /\ js = IF reopened THEN EarlierJson.st ELSE InitializeJsonStore
        /\ db = IF reopened THEN EarlierDb.st ELSE InitializePostgresStore
        /\ uuid = IF reopened THEN EarlierJson.used ELSE 0
    /\ now = Clock0
    /\ calls = 0
    /\ last = NoCall
    /\ NoCallers

JsonRuleIds(s) ==
    { s.config.RecurringExpenses[i].ID : i \in DOMAIN s.config.RecurringExpenses }

DbRuleIds(d) == { x.ID : x \in d.recurring }

\* Identifiers a caller names: those of the stored rules and one of no rule.
RuleTargets == JsonRuleIds(js) \cup DbRuleIds(db) \cup {9}

\* Identifiers of expenses a caller names: the caller's own, the first
\* generated one, and one of no expense.
ExpenseTargets == {5, NewUuid(0), 9}

\* The bookkeeping of one call: r and q are the outcomes in the two stores.
Called(op, args, r, q) ==
    /\ calls < MaxCalls
    /\ calls' = calls + 1
    /\ js' = r.st
    /\ db' = q.st
    /\ uuid' = uuid + Max(r.used, q.used)
    /\ last' = [op |-> op, args |-> args, today |-> now, n |-> uuid,
                pre |-> [js |-> js, db |-> db],
                err |-> [js |-> r.err, db |-> q.err]]
    /\ UNCHANGED <<xin, xout, now, mu, pcs>>

AddRecurringExpenseWith(ids) ==
    \E r \in SRuleInputs, id \in ids :
        LET rule == [r EXCEPT !.ID = id]
        IN  Called("AddRecurringExpense", [rule |-> rule],
                   JsonAddRecurringExpense(js, rule, now, uuid),
                   DbAddRecurringExpense(db, rule, now, uuid))

\* The caller leaves the identifier to the store, or sends one of its own.
AddRecurringExpense == AddRecurringExpenseWith({EmptyId, 1})

UpdateRecurringExpense ==
    \E id \in RuleTargets, r \in SRuleInputs, updateAll \in BOOLEAN :
        Called("UpdateRecurringExpense",
               [id |-> id, rule |-> r, all |-> updateAll],
               JsonUpdateRecurringExpense(js, id, r, updateAll, now, uuid),
               DbUpdateRecurringExpense(db, id, r, updateAll, now, uuid))

RemoveRecurringExpense ==
    \E id \in RuleTargets, removeAll \in BOOLEAN :
        Called("RemoveRecurringExpense", [id |-> id, all |-> removeAll],
               JsonRemoveRecurringExpense(js, id, removeAll, now),
               DbRemoveRecurringExpense(db, id, removeAll, now))

AddExpense ==
    \E e \in SExpenseInputs :
        Called("AddExpense", [expense |-> e],
               JsonAddExpense(js, e, now, uuid),
               DbAddExpense(db, e, now, uuid))

UpdateExpense ==
    \E id \in ExpenseTargets, e \in SExpenseInputs :
        Called("UpdateExpense", [id |-> id, expense |-> e],
               JsonUpdateExpense(js, id, e),
               DbUpdateExpense(db, id, e))

UpdateCurrency ==
    \E c \in {"eur", "xyz"} :
        Called("UpdateCurrency", [currency |-> c],
               JsonUpdateCurrency(js, c),
               DbUpdateCurrency(db, c))

\* Time passes between calls.
Tick ==
    /\ now < Clock0 + MaxTicks
    /\ now' = now + 1
    /\ UNCHANGED <<xin, xout, js, db, uuid, calls, last, mu, pcs>>

Next ==
    \/ AddRecurringExpense
    \/ UpdateRecurringExpense
    \/ RemoveRecurringExpense
    \/ AddExpense
    \/ UpdateExpense
    \/ UpdateCurrency
    \/ Tick

Spec == SInit /\ [][Next]_vars

\* Rule calls only, every new rule with a generated identifier: every stored
\* instance was materialised by the engine and no two rules share an
\* identifier.
RulesNext ==
    \/ AddRecurringExpenseWith({EmptyId})
    \/ UpdateRecurringExpense
    \/ RemoveRecurringExpense
    \/ UpdateCurrency
    \/ Tick

SpecRules == SInit /\ [][RulesNext]_vars

\* ------------------------------------------------ claims on the rule calls

IsCall(op) == last.op = op

\* The rule a caller's newRule is stored as under identifier id: the
\* identifier set, an empty currency replaced by the store's default.
C_RuleAs(r, id, defaults) ==
    [r EXCEPT !.ID = id,
              !.Currency = IF r.Currency = "" THEN defaults.currency ELSE r.Currency]

C_Of(data, id) == SelectSeq(data, LAMBDA e : e.RecurringID = id)

C_Others(data, id) == SelectSeq(data, LAMBDA e : e.RecurringID # id)

C_Past(data, id, today) ==
    SelectSeq(data, LAMBDA e : e.RecurringID = id /\ e.Date <= today)

C_Future(data, id, today) ==
    SelectSeq(data, LAMBDA e : e.RecurringID = id /\ e.Date > today)

\* The first stored rule with the identifier, as GetRecurringExpense finds it.
C_JsonRule(s, id) ==
    LET rs == s.config.RecurringExpenses
    IN  rs[CHOOSE i \in DOMAIN rs :
               rs[i].ID = id /\ \A j \in DOMAIN rs : rs[j].ID = id => i <= j]

\* C6: after a successful UpdateRecurringExpense(id, newRule, updateAll=false),
\* in both stores, the instances of id dated on or before now are still there
\* unchanged, those dated after now are gone, the instances added are
\* expand(newRule as stored under id, fromToday=true), and every expense with
\* another back-reference is unchanged.
C6_UpdateFutureOnly ==
    (IsCall("UpdateRecurringExpense") /\ ~last.args.all)
    => LET id    == last.args.id
           today == last.today
           pj    == last.pre.js
           pd    == last.pre.db
           rj    == C_RuleAs(last.args.rule, id, pj.defaults)
           rd    == C_RuleAs(last.args.rule, id, pd.defaults)
       IN  /\ last.err.js = "ok"
              => /\ C_Others(js.expenses, id) = C_Others(pj.expenses, id)
                 /\ C_Of(js.expenses, id)
                      = C_Past(pj.expenses, id, today)
                        \o generateExpensesFromRecurring(rj, TRUE, today, last.n)
                 /\ \A e \in Range(C_Future(pj.expenses, id, today)) :
                        e \notin Range(js.expenses)
           /\ last.err.db = "ok"
              => /\ { x \in db.expenses : x.RecurringID # id }
                      = { x \in pd.expenses : x.RecurringID # id }
                 /\ { x \in db.expenses : x.RecurringID = id }
                      = { x \in pd.expenses : x.RecurringID = id /\ x.Date <= today }
                        \cup Range(generateExpensesFromRecurring(rd, TRUE, today, last.n))
                 /\ \A x \in pd.expenses :
                        (x.RecurringID = id /\ x.Date > today) => x \notin db.expenses

C6_Witness ==
    /\ IsCall("UpdateRecurringExpense") /\ ~last.args.all
    /\ last.err.js = "ok" /\ last.err.db = "ok"
    /\ C_Past(last.pre.js.expenses, last.args.id, last.today) # << >>
    /\ C_Future(last.pre.js.expenses, last.args.id, last.today) # << >>
    /\ C_Others(last.pre.js.expenses, last.args.id) # << >>
    /\ \E x \in last.pre.db.expenses :
           x.RecurringID = last.args.id /\ x.Date > last.today
    /\ Len(js.expenses) > Len(C_Others(js.expenses, last.args.id))
                          + Len(C_Past(last.pre.js.expenses, last.args.id, last.today))

\* C7: after a successful UpdateRecurringExpense(id, newRule, updateAll=true)
\* the expenses with back-reference id are exactly the N records of
\* expand(newRule as stored under id, fromToday=false), the stored rule with
\* that id is newRule as stored under id, and every expense with another
\* back-reference is unchanged.
C7_UpdateAll ==
    (IsCall("UpdateRecurringExpense") /\ last.args.all)
    => LET id    == last.args.id
           today == last.today
           pj    == last.pre.js
           pd    == last.pre.db
           rj    == C_RuleAs(last.args.rule, id, pj.defaults)
           rd    == C_RuleAs(last.args.rule, id, pd.defaults)
       IN  /\ last.err.js = "ok"
              => /\ C_Others(js.expenses, id) = C_Others(pj.expenses, id)
                 /\ C_Of(js.expenses, id)
                      = generateExpensesFromRecurring(rj, FALSE, today, last.n)
                 /\ Len(C_Of(js.expenses, id)) = last.args.rule.Occurrences
                 /\ Range(C_Of(pj.expenses, id)) \cap Range(js.expenses) = {}
                 /\ C_JsonRule(js, id) = rj
           /\ last.err.db = "ok"
              => /\ { x \in db.expenses : x.RecurringID # id }
                      = { x \in pd.expenses : x.RecurringID # id }
                 /\ { x \in db.expenses : x.RecurringID = id }
                      = Range(generateExpensesFromRecurring(rd, FALSE, today, last.n))
                 /\ Cardinality({ x \in db.expenses : x.RecurringID = id })
                      = last.args.rule.Occurrences
                 /\ { x \in db.recurring : x.ID = id } = {rd}

C7_Witness ==
    /\ IsCall("UpdateRecurringExpense") /\ last.args.all
    /\ last.err.js = "ok" /\ last.err.db = "ok"
    /\ C_Past(last.pre.js.expenses, last.args.id, last.today) # << >>
    /\ C_Future(last.pre.js.expenses, last.args.id, last.today) # << >>
    /\ C_Others(last.pre.js.expenses, last.args.id) # << >>
    /\ C_JsonRule(last.pre.js, last.args.id).StartDate # last.args.rule.StartDate
    /\ Len(C_Of(js.expenses, last.args.id)) >= 2

\* C8: after a successful RemoveRecurringExpense(id, removeAll) no rule has
\* identifier id; with removeAll no expense with back-reference id remains;
\* without it exactly those dated after now are deleted and those dated on or
\* before now remain as they were; every expense with another back-reference
\* is unchanged.
C8_RemoveRule ==
    IsCall("RemoveRecurringExpense")
    => LET id    == last.args.id
           today == last.today
           pj    == last.pre.js
           pd    == last.pre.db
       IN  /\ last.err.js = "ok"
              => /\ id \notin JsonRuleIds(js)
                 /\ C_Others(js.expenses, id) = C_Others(pj.expenses, id)
                 /\ C_Of(js.expenses, id)
                      = IF last.args.all THEN << >>
                        ELSE C_Past(pj.expenses, id, today)
           /\ last.err.db = "ok"
              => /\ id \notin DbRuleIds(db)
                 /\ { x \in db.expenses : x.RecurringID # id }
                      = { x \in pd.expenses : x.RecurringID # id }
                 /\ { x \in db.expenses : x.RecurringID = id }
                      = IF last.args.all THEN {}
                        ELSE { x \in pd.expenses :
                                 x.RecurringID = id /\ x.Date <= today }

C8_Witness ==
    /\ IsCall("RemoveRecurringExpense") /\ ~last.args.all
    /\ last.err.js = "ok" /\ last.err.db = "ok"
    /\ C_Past(last.pre.js.expenses, last.args.id, last.today) # << >>
    /\ C_Future(last.pre.js.expenses, last.args.id, last.today) # << >>
    /\ C_Others(last.pre.js.expenses, last.args.id) # << >>
    /\ C_Of(js.expenses, last.args.id) # << >>
    /\ Cardinality(db.expenses) < Cardinality(last.pre.db.expenses)

\* C9: after a successful AddRecurringExpense(rule) with occurrence count N
\* the rule list holds the rule (with a generated identifier if it had none),
\* the expense collection has gained exactly the N records of
\* expand(rule, fromToday=false), all with the rule's identifier as
\* back-reference, and the expenses and rules stored before are unchanged.
C9_AddRule ==
    IsCall("AddRecurringExpense")
    => LET arg   == last.args.rule
           id    == IF arg.ID = EmptyId THEN NewUuid(last.n) ELSE arg.ID
           n1    == IF arg.ID = EmptyId THEN last.n + 1 ELSE last.n
           today == last.today
           pj    == last.pre.js
           pd    == last.pre.db
           rj    == C_RuleAs(arg, id, pj.defaults)
           rd    == C_RuleAs(arg, id, pd.defaults)
           gj    == generateExpensesFromRecurring(rj, FALSE, today, n1)
           gd    == generateExpensesFromRecurring(rd, FALSE, today, n1)
       IN  /\ last.err.js = "ok"
              => /\ js.config.RecurringExpenses
                      = Append(pj.config.RecurringExpenses, rj)
                 /\ js.expenses = pj.expenses \o gj
                 /\ Len(js.expenses) = Len(pj.expenses) + arg.Occurrences
                 /\ \A k \in (Len(pj.expenses) + 1)..Len(js.expenses) :
                        js.expenses[k].RecurringID = id
           /\ last.err.db = "ok"
              => /\ db.recurring = pd.recurring \cup {rd}
                 /\ rd \notin pd.recurring
                 /\ db.expenses = pd.expenses \cup Range(gd)
                 /\ Cardinality(db.expenses)
                      = Cardinality(pd.expenses) + arg.Occurrences
                 /\ \A x \in db.expenses \ pd.expenses : x.RecurringID = id

C9_Witness ==
    /\ IsCall("AddRecurringExpense")
    /\ last.err.js = "ok" /\ last.err.db = "ok"
    /\ last.args.rule.ID = EmptyId
    /\ last.args.rule.Occurrences = MaxOcc
    /\ last.pre.js.expenses # << >>
    /\ last.pre.db.recurring # {}
    /\ Len(js.expenses) = Len(last.pre.js.expenses) + MaxOcc

\* Whether date is reached from cur by zero or more steps of the interval.
RECURSIVE C_Reaches(_, _, _)
C_Reaches(interval, cur, date) ==
    IF cur = date THEN TRUE
    ELSE IF cur > date \/ interval \notin ValidIntervals THEN FALSE
    ELSE C_Reaches(interval, Step(interval, cur), date)

\* C10 as claimed: in every reachable state every stored expense whose
\* back-reference is the identifier of an existing rule is dated at that
\* rule's current start date advanced by k >= 0 interval steps.
C10_InstancesDerivable ==
    /\ \A i \in DOMAIN js.expenses :
         \A j \in DOMAIN js.config.RecurringExpenses :
            LET e == js.expenses[i]
                r == js.config.RecurringExpenses[j]
            IN  e.RecurringID = r.ID => C_Reaches(r.Interval, r.StartDate, e.Date)
    /\ \A x \in db.expenses :
         \A r \in db.recurring :
            x.RecurringID = r.ID => C_Reaches(r.Interval, r.StartDate, x.Date)


\* ------------------- specification: concurrent callers of the file store
\* Each caller makes one call.  A call is a sequence of steps on the shared
\* state: taking and releasing jsonStore.mu, and reading and writing the two
\* documents.  What a step computes in memory is done with the step.

Callers == {1, 2}

Idle == [pc |-> "idle"]

Nil == [nil |-> TRUE]

\* The expense the earlier process added after the seed rule's instances.
ManualId == NewUuid(SeedRule.Occurrences)

WriteCalls ==
    { [name |-> "AddExpense", e |-> SeedExpense],
      [name |-> "UpdateExpense", id |-> ManualId,
       e |-> CHOOSE e \in SExpenseInputs : e.ID # EmptyId],
      [name |-> "RemoveExpense", id |-> ManualId],
      [name |-> "AddMultipleExpenses",
       expensesToAdd |-> << CHOOSE e \in SExpenseInputs : e.ID # EmptyId >>],
      [name |-> "AddMultipleExpenses", expensesToAdd |-> << >>],
      [name |-> "RemoveMultipleExpenses", ids |-> << NewUuid(0) >>],
      [name |-> "RemoveMultipleExpenses", ids |-> << >>],
      [name |-> "AddRecurringExpense",
       rule |-> CHOOSE r \in SRuleInputs : r.Interval = "daily"],
      [name |-> "UpdateRecurringExpense", id |-> SeedRule.ID,
       rule |-> CHOOSE r \in SRuleInputs : r.Interval = "monthly",
       all |-> FALSE],
      [name |-> "RemoveRecurringExpense", id |-> SeedRule.ID, all |-> TRUE],
      [name |-> "UpdateCategories", categories |-> <<"Food">>],
      [name |-> "UpdateCurrency", currency |-> "eur"],
      [name |-> "UpdateCurrency", currency |-> "xyz"],
      [name |-> "UpdateStartDate", startDate |-> 15] }

ReadCalls ==
    { [name |-> "GetConfig"],
      [name |-> "GetAllExpenses"],
      [name |-> "GetExpense", id |-> ManualId] }

ConfigCalls == {"UpdateCategories", "UpdateCurrency", "UpdateStartDate"}

RuleCalls ==
    {"AddRecurringExpense", "UpdateRecurringExpense", "RemoveRecurringExpense"}

\* Where a call starts: the checks made before any lock is taken.
Entry(op) ==
    CASE op \in ReadCalls -> "RLock"
      [] op.name = "AddMultipleExpenses" ->
            IF Len(op.expensesToAdd) = 0 THEN "done" ELSE "ReadExp"
      [] op.name = "UpdateCurrency" ->
            IF op.currency \notin SupportedCurrencies THEN "done" ELSE "Lock"
      [] op.name = "UpdateStartDate" ->
            IF op.startDate < 1 \/ op.startDate > 31 THEN "done" ELSE "Lock"
      [] OTHER -> "Lock"

AfterLock(op) ==
    CASE op.name \in ConfigCalls \cup RuleCalls -> "ReadCfg"
      [] op.name = "RemoveMultipleExpenses" ->
            IF Len(op.ids) = 0 THEN "Unlock" ELSE "ReadExp"
      [] OTHER -> "ReadExp"

AfterReadCfg(op, config) ==
    CASE op.name = "GetConfig" -> "RUnlock"
      [] op.name \in {"UpdateRecurringExpense", "RemoveRecurringExpense"} ->
            IF HasRule(config, op.id) THEN "ReadExp" ELSE "Unlock"
      [] OTHER -> "WriteCfg"

AfterReadExp(op, data) ==
    CASE op \in ReadCalls -> "RUnlock"
      [] op.name = "UpdateExpense" ->
            IF \E i \in DOMAIN data : data[i].ID = op.id
            THEN "WriteExp" ELSE "Unlock"
      [] op.name = "RemoveExpense" ->
            IF Len(data) # 0 /\ \E i \in DOMAIN data : data[i].ID = op.id
            THEN "WriteExp" ELSE "Unlock"
      [] op.name = "RemoveMultipleExpenses" ->
            IF Len(RemoveMultipleExpensesExp(data, op.ids)) = Len(data)
            THEN "Unlock" ELSE "WriteExp"
      [] OTHER -> "WriteExp"

AfterWriteExp(op) ==
    CASE op.name = "AddMultipleExpenses" -> "done"
      [] op.name \in {"UpdateRecurringExpense", "RemoveRecurringExpense"} ->
            "WriteCfg"
      [] OTHER -> "Unlock"


CInit ==
    /\ EngineIdle
    /\ \E reopened \in BOOLEAN :
        /\ js = IF reopened THEN EarlierJson.st ELSE InitializeJsonStore
        /\ uuid = IF reopened THEN EarlierJson.used ELSE 0
    /\ db = InitializePostgresStore
    /\ now = Clock0
    /\ calls = 0
    /\ last = [op |-> "open", js |-> js, n |-> uuid]
    /\ mu = [writer |-> 0, readers |-> {}]
    /\ pcs = [p \in Callers |-> Idle]

At(p, pc) == pcs[p].pc = pc

Goto(p, pc) == [pcs EXCEPT ![p].pc = pc]

CStatic == <<xin, xout, db, now, calls, last>>

\* A caller enters a method of the store.
Call(p) ==
    /\ At(p, "idle")
    /\ \E op \in WriteCalls \cup ReadCalls :
        pcs' = [pcs EXCEPT ![p] = [pc |-> Entry(op), op |-> op, config |-> Nil,
                                   data |-> Nil, rule |-> Nil, toAdd |-> << >>]]
    /\ UNCHANGED <<js, uuid, mu>>
    /\ UNCHANGED CStatic

\* s.mu.Lock()
Lock(p) ==
    /\ At(p, "Lock")
    /\ mu.writer = 0 /\ mu.readers = {}
    /\ mu' = [mu EXCEPT !.writer = p]
    /\ pcs' = Goto(p, AfterLock(pcs[p].op))
    /\ UNCHANGED <<js, uuid>>
    /\ UNCHANGED CStatic

\* s.mu.RLock()
RLock(p) ==
    /\ At(p, "RLock")
    /\ mu.writer = 0
    /\ mu' = [mu EXCEPT !.readers = @ \cup {p}]
    /\ pcs' = Goto(p, IF pcs[p].op.name = "GetConfig" THEN "ReadCfg" ELSE "ReadExp")
    /\ UNCHANGED <<js, uuid>>
    /\ UNCHANGED CStatic

\* readConfigFile, and what the method does with the copy before its next
\* step on the shared state: the rule is completed as it will be stored.
readConfigFile(p) ==
    /\ At(p, "ReadCfg")
    /\ LET op   == pcs[p].op
           rule == CASE op.name = "AddRecurringExpense" ->
                            FillRule(op.rule, js.defaults, uuid)
                     [] op.name = "UpdateRecurringExpense" ->
                            UpdatedRule(op.rule, js.defaults, op.id)
                     [] OTHER -> Nil
       IN  /\ pcs' = [pcs EXCEPT ![p].config = js.config,
                                 ![p].rule = rule,
                                 ![p].pc = AfterReadCfg(op, js.config)]
           /\ uuid' = IF op.name = "AddRecurringExpense"
                      THEN uuid + RuleUsed(op.rule) ELSE uuid
    /\ UNCHANGED <<js, mu>>
    /\ UNCHANGED CStatic

\* writeConfigFile of the changed copy.  AddRecurringExpense then copies the
\* rule's instances in and hands them to AddMultipleExpenses.
writeConfigFile(p) ==
    /\ At(p, "WriteCfg")
    /\ LET op == pcs[p].op
           c  == pcs[p].config
           toAdd == IF op.name = "AddRecurringExpense"
                    THEN generateExpensesFromRecurring(pcs[p].rule, FALSE, now, uuid)
                    ELSE << >>
       IN  /\ js' = CASE op.name = "UpdateCategories" ->
                            [js EXCEPT !.config = UpdateCategoriesCfg(c, op.categories)]
                      [] op.name = "UpdateCurrency" ->
                            [js EXCEPT !.config = UpdateCurrencyCfg(c, op.currency),
                                       !.defaults.currency = op.currency]
                      [] op.name = "UpdateStartDate" ->
                            [js EXCEPT !.config = UpdateStartDateCfg(c, op.startDate),
                                       !.defaults.start_date = ToString(op.startDate)]
                      [] op.name = "AddRecurringExpense" ->
                            [js EXCEPT !.config = AddRecurringExpenseCfg(c, pcs[p].rule)]
                      [] op.name = "UpdateRecurringExpense" ->
                            [js EXCEPT !.config = UpdateRecurringExpenseCfg(c, pcs[p].rule)]
                      [] op.name = "RemoveRecurringExpense" ->
                            [js EXCEPT !.config = RemoveRecurringExpenseCfg(c, op.id)]
           /\ uuid' = uuid + Len(toAdd)
           /\ pcs' = [pcs EXCEPT ![p].toAdd = toAdd,
                                 ![p].pc = IF op.name = "AddRecurringExpense"
                                              /\ Len(toAdd) # 0
                                           THEN "ReadExp" ELSE "Unlock"]
    /\ UNCHANGED mu
    /\ UNCHANGED CStatic

\* readExpensesFile
readExpensesFile(p) ==
    /\ At(p, "ReadExp")
    /\ pcs' = [pcs EXCEPT ![p].data = js.expenses,
                          ![p].pc = AfterReadExp(pcs[p].op, js.expenses)]
    /\ UNCHANGED <<js, uuid, mu>>
    /\ UNCHANGED CStatic

\* writeExpensesFile of the changed copy.
writeExpensesFile(p) ==
    /\ At(p, "WriteExp")
    /\ LET op == pcs[p].op
           d  == pcs[p].data
           data == CASE op.name = "AddExpense" ->
                            AddExpenseExp(d, js.defaults, op.e, now, uuid)
                     [] op.name = "UpdateExpense" ->
                            UpdateExpenseExp(d, js.defaults, op.id, op.e)
                     [] op.name = "RemoveExpense" -> RemoveExpenseExp(d, op.id)
                     [] op.name = "AddMultipleExpenses" ->
                            AddMultipleExpensesExp(d, op.expensesToAdd)
                     [] op.name = "RemoveMultipleExpenses" ->
                            RemoveMultipleExpensesExp(d, op.ids)
                     [] op.name = "AddRecurringExpense" ->
                            AddMultipleExpensesExp(d, pcs[p].toAdd)
                     [] op.name = "UpdateRecurringExpense" ->
                            UpdateRecurringExpenseExp(d, pcs[p].rule, op.all, now, uuid)
                     [] op.name = "RemoveRecurringExpense" ->
                            KeptExpenses(d, op.id, op.all, now)
       IN  /\ js' = [js EXCEPT !.expenses = data]
           /\ uuid' = CASE op.name = "AddExpense" ->
                            uuid + (IF op.e.ID = EmptyId THEN 1 ELSE 0)
                        [] op.name = "UpdateRecurringExpense" ->
                            uuid + Len(data)
                                 - Len(KeptExpenses(d, op.id, op.all, now))
                        [] OTHER -> uuid
           /\ pcs' = Goto(p, AfterWriteExp(op))
    /\ UNCHANGED mu
    /\ UNCHANGED CStatic

\* defer s.mu.Unlock()
Unlock(p) ==
    /\ At(p, "Unlock")
    /\ mu' = [mu EXCEPT !.writer = 0]
    /\ pcs' = Goto(p, "done")
    /\ UNCHANGED <<js, uuid>>
    /\ UNCHANGED CStatic

\* defer s.mu.RUnlock()
RUnlock(p) ==
    /\ At(p, "RUnlock")
    /\ mu' = [mu EXCEPT !.readers = @ \ {p}]
    /\ pcs' = Goto(p, "done")
    /\ UNCHANGED <<js, uuid>>
    /\ UNCHANGED CStatic

CNext ==
    \E p \in Callers :
        \/ Call(p)
        \/ Lock(p)
        \/ RLock(p)
        \/ readConfigFile(p)
        \/ writeConfigFile(p)
        \/ readExpensesFile(p)
        \/ writeExpensesFile(p)
        \/ Unlock(p)
        \/ RUnlock(p)

SpecJson == CInit /\ [][CNext]_vars


\* ------------------------------------------- claims on concurrent callers

\* A call applied completely, as the one-by-one specification applies it.
ApplyCall(s, op, today, n) ==
    CASE op.name = "AddExpense" -> JsonAddExpense(s, op.e, today, n)
      [] op.name = "UpdateExpense" -> JsonUpdateExpense(s, op.id, op.e)
      [] op.name = "RemoveExpense" -> JsonRemoveExpense(s, op.id)
      [] op.name = "AddMultipleExpenses" ->
            JsonAddMultipleExpenses(s, op.expensesToAdd)
      [] op.name = "RemoveMultipleExpenses" ->
            JsonRemoveMultipleExpenses(s, op.ids)
      [] op.name = "AddRecurringExpense" ->
            JsonAddRecurringExpense(s, op.rule, today, n)
      [] op.name = "UpdateRecurringExpense" ->
            JsonUpdateRecurringExpense(s, op.id, op.rule, op.all, today, n)
      [] op.name = "RemoveRecurringExpense" ->
            JsonRemoveRecurringExpense(s, op.id, op.all, today)
      [] op.name = "UpdateCategories" -> JsonUpdateCategories(s, op.categories)
      [] op.name = "UpdateCurrency" -> JsonUpdateCurrency(s, op.currency)
      [] op.name = "UpdateStartDate" -> JsonUpdateStartDate(s, op.startDate)

C_OneAfterTheOther(first, second) ==
    LET a == ApplyCall(last.js, first, now, last.n)
    IN  ApplyCall(a.st, second, now, last.n + a.used).st

C_BothWrote ==
    \A p \in Callers : At(p, "done") /\ pcs[p].op \in WriteCalls

\* C1: when two write operations issued concurrently against one file store
\* have both returned, the documents are those that applying the two
\* operations completely one after the other, in one of the two orders,
\* leaves; no update is lost.
C1_Serialized ==
    C_BothWrote =>
        \/ js = C_OneAfterTheOther(pcs[1].op, pcs[2].op)
        \/ js = C_OneAfterTheOther(pcs[2].op, pcs[1].op)

\* The steps that read or write a document.
C_DocSteps == {"ReadCfg", "ReadExp", "WriteExp", "WriteCfg"}

\* A mutating call that has read a document and has a write still to make.
C_Between(p) ==
    /\ ~At(p, "idle")
    /\ pcs[p].op \in WriteCalls
    /\ \/ pcs[p].pc \in {"WriteExp", "WriteCfg"}
       \/ At(p, "ReadExp") /\ pcs[p].config # Nil

\* C2: a mutating operation at a document read or write holds the lock in
\* exclusive mode and a read operation at its read holds it in shared mode;
\* while one operation is between its document read and its document write,
\* no other operation is at a document read or write.
C2_LockDiscipline ==
    /\ \A p \in Callers :
         pcs[p].pc \in C_DocSteps =>
            IF pcs[p].op \in WriteCalls THEN mu.writer = p
            ELSE p \in mu.readers
    /\ \A p, q \in Callers :
         (p # q /\ C_Between(p)) => pcs[q].pc \notin C_DocSteps

\* The same two properties for every call but AddMultipleExpenses.
C_LockedCallsOnly ==
    \A p \in Callers :
        ~At(p, "idle") => pcs[p].op.name # "AddMultipleExpenses"

C_SerializedWhenLocked == C_LockedCallsOnly => C1_Serialized

C_DisciplineWhenLocked == C_LockedCallsOnly => C2_LockDiscipline


\* ---------------------- specification: the whole contract, one call at a time
\* Spec's calls and the rest of the Storage contract: the reads, the removal
\* of expenses, the bulk calls and the other config updates.

\* The bookkeeping of a call that returns a value: as Called, with the value
\* each store returned and the call made before this one.
Queried(op, args, r, q) ==
    /\ calls < MaxCalls
    /\ calls' = calls + 1
    /\ js' = r.st
    /\ db' = q.st
    /\ uuid' = uuid + Max(r.used, q.used)
    /\ last' = [op |-> op, args |-> args, today |-> now, n |-> uuid,
                pre |-> [js |-> js, db |-> db],
                err |-> [js |-> r.err, db |-> q.err],
                got |-> [js |-> r.got, db |-> q.got],
                prev |-> IF last.op \in {"none", "open"} THEN NoCall
                         ELSE [op |-> last.op, args |-> last.args,
                               today |-> last.today, n |-> last.n,
                               err |-> last.err]]
    /\ UNCHANGED <<xin, xout, now, mu, pcs>>

\* Identifiers of expenses a caller names: ExpenseTargets and the identifier
\* generated last.
StoreTargets ==
    ExpenseTargets \cup (IF uuid > 0 THEN {NewUuid(uuid - 1)} ELSE {})

\* Expense lists and identifier lists a caller sends to the bulk calls.
SExpenseLists ==
    { << >>, << CHOOSE e \in SExpenseInputs : e.ID # EmptyId >> }

SIdLists == { << >>, <<9>>, <<5, NewUuid(0)>> }

GetExpense ==
    \E id \in StoreTargets :
        Queried("GetExpense", [id |-> id],
                JsonGetExpense(js, id), DbGetExpense(db, id))

\* GetConfig of the file store reads the document; the relational store's
\* saves the base config when the row is missing.
GetConfig ==
    Queried("GetConfig", [none |-> TRUE],
            [st |-> js, err |-> "ok", used |-> 0, got |-> js.config],
            [st |-> DbGetConfig(db).st, err |-> "ok", used |-> 0,
             got |-> DbGetConfig(db).config])

RemoveExpense ==
    \E id \in StoreTargets :
        Called("RemoveExpense", [id |-> id],
               JsonRemoveExpense(js, id), DbRemoveExpense(db, id))

AddMultipleExpenses ==
    \E l \in SExpenseLists :
        Called("AddMultipleExpenses", [expenses |-> l],
               JsonAddMultipleExpenses(js, l),
               DbAddMultipleExpenses(db, l, now, uuid))

RemoveMultipleExpenses ==
    \E ids \in SIdLists :
        Called("RemoveMultipleExpenses", [ids |-> ids],
               JsonRemoveMultipleExpenses(js, ids),
               DbRemoveMultipleExpenses(db, ids))

UpdateStartDate ==
    \E d \in {0, 15, 32} :
        Called("UpdateStartDate", [startDate |-> d],
               JsonUpdateStartDate(js, d), DbUpdateStartDate(db, d))

UpdateCategories ==
    \E c \in { <<"Food", "Pets">> } :
        Called("UpdateCategories", [categories |-> c],
               JsonUpdateCategories(js, c), DbUpdateCategories(db, c))

StoreNext ==
    \/ AddRecurringExpense
    \/ UpdateRecurringExpense
    \/ RemoveRecurringExpense
    \/ AddExpense
    \/ UpdateExpense
    \/ UpdateCurrency
    \/ GetExpense
    \/ GetConfig
    \/ RemoveExpense
    \/ AddMultipleExpenses
    \/ RemoveMultipleExpenses
    \/ UpdateStartDate
    \/ UpdateCategories
    \/ Tick

SpecStore == SInit /\ [][StoreNext]_vars


\* ---------------------------------------------- claims on the whole contract

\* The identifier under which AddExpense stored expense e when the counter of
\* generated identifiers stood at n.
C_StoredId(e, n) == IF e.ID = EmptyId THEN NewUuid(n) ELSE e.ID

\* A record read back equals the expense e that was added: every field is
\* e's, but an empty identifier, an empty currency and a zero date hold what
\* the store filled in.
C_ReadsBack(got, e, n, today) ==
    /\ got.ID = C_StoredId(e, n)
    /\ got.RecurringID = e.RecurringID
    /\ got.Name = e.Name
    /\ got.Category = e.Category
    /\ got.Amount = e.Amount
    /\ got.Tags = e.Tags
    /\ e.Currency # "" => got.Currency = e.Currency
    /\ got.Date = IF e.Date = ZeroTime THEN today ELSE e.Date

\* GetExpense of the identifier under which the call before, a successful
\* AddExpense, stored its record.
C_GetAfterAdd(store) ==
    /\ IsCall("GetExpense")
    /\ last.prev.op = "AddExpense"
    /\ last.prev.err[store] = "ok"
    /\ last.args.id = C_StoredId(last.prev.args.expense, last.prev.n)

\* C11: in either store, AddExpense(e) followed by GetExpense of the stored
\* record's identifier returns a record equal to e in every field, the
\* identifier, currency and date holding the filled-in defaults exactly when
\* they were empty or zero in e.
C11_RoundTrip ==
    \A store \in {"js", "db"} :
        C_GetAfterAdd(store)
        => /\ last.err[store] = "ok"
           /\ C_ReadsBack(last.got[store], last.prev.args.expense,
                          last.prev.n, last.prev.today)

\* The same for the file store alone.
C_RoundTripJson ==
    C_GetAfterAdd("js")
    => /\ last.err.js = "ok"
       /\ C_ReadsBack(last.got.js, last.prev.args.expense,
                      last.prev.n, last.prev.today)


\* The relational store's part: the primary key of the table expenses.
C_UniqueIdsDb == \A x, y \in db.expenses : x.ID = y.ID => x = y

\* C12: in every reachable state no two expenses of the expense collection
\* have the same identifier, also after AddExpense or AddMultipleExpenses
\* with a caller-supplied identifier that is already stored.
C12_UniqueIds ==
    /\ \A i, j \in DOMAIN js.expenses :
         i # j => js.expenses[i].ID # js.expenses[j].ID
    /\ C_UniqueIdsDb


\* A call of GetExpense, UpdateExpense or RemoveExpense whose identifier is
\* not in the collection of the store.
C_AbsentIdCall(store) ==
    /\ last.op \in {"GetExpense", "UpdateExpense", "RemoveExpense"}
    /\ IF store = "js"
       THEN \A i \in DOMAIN last.pre.js.expenses :
                last.pre.js.expenses[i].ID # last.args.id
       ELSE ~HasRow(last.pre.db.expenses, last.args.id)

\* C14: in every store state, the empty collection included, GetExpense,
\* UpdateExpense and RemoveExpense of an identifier that is not in the
\* collection return a not-found error as a value and leave the collection
\* unchanged.
C14_AbsentIdNotFound ==
    /\ C_AbsentIdCall("js")
       => last.err.js = "notfound" /\ js.expenses = last.pre.js.expenses
    /\ C_AbsentIdCall("db")
       => last.err.db = "notfound" /\ db.expenses = last.pre.db.expenses

\* The same on a collection that is not empty.
C_AbsentIdNotFoundNonEmpty ==
    (last.op \in {"GetExpense", "UpdateExpense", "RemoveExpense"}
     /\ last.pre.js.expenses # << >>)
    => C14_AbsentIdNotFound


\* C15: UpdateCurrency with a currency outside the supported set returns an
\* error and leaves the stored config currency and the store's default
\* currency as they were; UpdateStartDate with a day below 1 or above 31
\* returns an error and leaves the stored start day as it was.
C15_InvalidConfigRejected ==
    /\ (IsCall("UpdateCurrency")
        /\ last.args.currency \notin SupportedCurrencies)
       => /\ last.err.js # "ok" /\ last.err.db # "ok"
          /\ js.config.Currency = last.pre.js.config.Currency
          /\ js.defaults.currency = last.pre.js.defaults.currency
          /\ db.config = last.pre.db.config
          /\ db.defaults.currency = last.pre.db.defaults.currency
    /\ (IsCall("UpdateStartDate")
        /\ (last.args.startDate < 1 \/ last.args.startDate > 31))
       => /\ last.err.js # "ok" /\ last.err.db # "ok"
          /\ js.config.StartDate = last.pre.js.config.StartDate
          /\ js.defaults.start_date = last.pre.js.defaults.start_date
          /\ db.config = last.pre.db.config
          /\ db.defaults.start_date = last.pre.db.defaults.start_date

C15_Witness ==
    /\ IsCall("UpdateCurrency")
    /\ last.args.currency = "xyz"
    /\ last.err.js = "invalid" /\ last.err.db = "invalid"
    /\ last.pre.js.config.Currency = "eur"
    /\ js.defaults.currency = "eur"
    /\ db.config # NoRow /\ db.config.Currency = "eur"


\* The config a store returns: the file store's document, the relational
\* store's row or, while there is none, the base config.
C_Config(store) == IF store = "js" THEN js.config ELSE DbGetConfig(db).config

\* C16: in every state reachable from store initialisation the stored config
\* currency is one of the supported currencies and the stored start day is in
\* 1..31; initially they are "usd" and 1, with the ten default categories.
C16_ConfigValid ==
    \A store \in {"js", "db"} :
        /\ C_Config(store).Currency \in SupportedCurrencies
        /\ C_Config(store).StartDate \in 1..31
        /\ calls = 0 => /\ C_Config(store).Currency = "usd"
                        /\ C_Config(store).StartDate = 1
                        /\ C_Config(store).Categories = defaultCategories
                        /\ Len(C_Config(store).Categories) = 10

C16_Witness ==
    /\ calls = MaxCalls
    /\ js.config.Currency = "eur" /\ js.config.StartDate = 15
    /\ db.config # NoRow
    /\ db.config.Currency = "eur" /\ db.config.StartDate = 15


\* The call returned success in both stores and left both as they were:
\* expense collection, config and rules.
C_NoOp ==
    /\ last.err.js = "ok" /\ last.err.db = "ok"
    /\ js = last.pre.js
    /\ db = last.pre.db

\* C17: RemoveMultipleExpenses with an empty identifier list and
\* AddMultipleExpenses with an empty list return success and leave the
\* expense collection and the config unchanged, in both stores; so does
\* RemoveMultipleExpenses with only identifiers that are not stored.
C17_EmptyBulkNoOp ==
    /\ (IsCall("RemoveMultipleExpenses") /\ last.args.ids = << >>) => C_NoOp
    /\ (IsCall("AddMultipleExpenses") /\ last.args.expenses = << >>) => C_NoOp
    /\ (IsCall("RemoveMultipleExpenses")
        /\ \A i \in DOMAIN last.pre.js.expenses :
               last.pre.js.expenses[i].ID \notin Range(last.args.ids)
        /\ \A x \in last.pre.db.expenses : x.ID \notin Range(last.args.ids))
       => C_NoOp

C17_Witness ==
    /\ IsCall("RemoveMultipleExpenses")
    /\ last.args.ids = << >>
    /\ last.pre.js.expenses # << >>
    /\ last.pre.db.expenses # {}
    /\ js.expenses = last.pre.js.expenses

\* A list of identifiers none of which is stored, on a populated store.
C_AbsentIdsReached ==
    /\ IsCall("RemoveMultipleExpenses")
    /\ last.args.ids = <<9>>
    /\ last.pre.js.expenses # << >>
    /\ last.pre.db.expenses # {}


\* The currencies of the records the last call stored, in the file store.
C_StoredCurrenciesJson ==
    CASE IsCall("AddExpense") -> { js.expenses[Len(js.expenses)].Currency }
      [] IsCall("UpdateExpense") ->
            { JsonGetExpense(js, last.args.id).got.Currency }
      [] IsCall("AddRecurringExpense") ->
            { js.config.RecurringExpenses[Len(js.config.RecurringExpenses)].Currency }
      [] IsCall("UpdateRecurringExpense") ->
            { C_JsonRule(js, last.args.id).Currency }
      [] OTHER -> {}

\* The same in the relational store.
C_StoredCurrenciesDb ==
    CASE IsCall("AddExpense") ->
            { x.Currency : x \in { y \in db.expenses :
                  y.ID = C_StoredId(last.args.expense, last.n) } }
      [] IsCall("UpdateExpense") ->
            { x.Currency : x \in { y \in db.expenses : y.ID = last.args.id } }
      [] IsCall("AddRecurringExpense") ->
            { x.Currency : x \in { y \in db.recurring :
                  y.ID = C_StoredId(last.args.rule, last.n) } }
      [] IsCall("UpdateRecurringExpense") ->
            { x.Currency : x \in { y \in db.recurring : y.ID = last.args.id } }
      [] OTHER -> {}

\* The last call succeeded in the store and its record had no currency.
C_EmptyCurrencySent(store) ==
    /\ last.err[store] = "ok"
    /\ \/ last.op \in {"AddExpense", "UpdateExpense"}
          /\ last.args.expense.Currency = ""
       \/ last.op \in {"AddRecurringExpense", "UpdateRecurringExpense"}
          /\ last.args.rule.Currency = ""

\* C20: when AddExpense, UpdateExpense, AddRecurringExpense or
\* UpdateRecurringExpense receives a record with empty currency, the stored
\* record's currency is the store's current config currency, also on a store
\* just initialised or reopened on which no UpdateCurrency has been called.
C20_DefaultCurrency ==
    /\ (last.op \notin {"none", "open"} /\ C_EmptyCurrencySent("js"))
       => \A c \in C_StoredCurrenciesJson : c = js.config.Currency
    /\ (last.op \notin {"none", "open"} /\ C_EmptyCurrencySent("db"))
       => \A c \in C_StoredCurrenciesDb : c = C_Config("db").Currency

\* The same once the store's defaults map holds a currency.
C_DefaultCurrencyOnceSet ==
    /\ (last.op \notin {"none", "open"} /\ C_EmptyCurrencySent("js")
        /\ last.pre.js.defaults.currency # "")
       => \A c \in C_StoredCurrenciesJson : c = js.config.Currency
    /\ (last.op \notin {"none", "open"} /\ C_EmptyCurrencySent("db")
        /\ last.pre.db.defaults.currency # "")
       => \A c \in C_StoredCurrenciesDb : c = C_Config("db").Currency


\* ------------------------------ specification: the HTTP handlers that validate
\* Each handler validates the decoded body and then makes its store call; a
\* body that fails validation reaches no store.

\* SanitizeString on the names used here: a character outside letters,
\* digits, spaces and . , - ' _ ! " becomes a space, runs of spaces become
\* one, and the ends are trimmed.
SanitizeString(s) ==
    CASE s = "<>"         -> ""
      [] s = "tea & cake" -> "tea cake"
      [] s = " home "     -> "home"
      [] OTHER            -> s

RECURSIVE CleanTags(_, _)
CleanTags(tags, i) ==
    IF i > Len(tags) THEN << >>
    ELSE LET t == SanitizeString(tags[i])
         IN  (IF t # "" THEN <<t>> ELSE << >>) \o CleanTags(tags, i + 1)

\* Expense.Validate: the error, and the record as the checks left it.
ExpenseValidate(e) ==
    LET e1 == [e EXCEPT !.Name = SanitizeString(@)]
        e2 == [e1 EXCEPT !.Tags = CleanTags(@, 1)]
    IN  IF e1.Name = "" THEN [err |-> "name", e |-> e1]
        ELSE IF e1.Category = "" THEN [err |-> "category", e |-> e1]
        ELSE IF e1.Amount = 0 THEN [err |-> "amount", e |-> e1]
        ELSE IF e2.Date = ZeroTime THEN [err |-> "date", e |-> e2]
        ELSE [err |-> "ok", e |-> e2]

\* RecurringExpense.Validate.
RecurringExpenseValidate(r) ==
    LET r1 == [r EXCEPT !.Name = SanitizeString(@)]
        r2 == [r1 EXCEPT !.Tags = CleanTags(@, 1)]
    IN  IF r1.Name = "" THEN [err |-> "name", rule |-> r1]
        ELSE IF r1.Category = "" THEN [err |-> "category", rule |-> r1]
        ELSE IF r2.Occurrences < 2 THEN [err |-> "occurrences", rule |-> r2]
        ELSE IF r2.StartDate = ZeroTime THEN [err |-> "startDate", rule |-> r2]
        ELSE IF r2.Interval \notin ValidIntervals
        THEN [err |-> "interval", rule |-> r2]
        ELSE [err |-> "ok", rule |-> r2]

\* The answer 400 Bad Request: no store call was made.
BadRequest(st) == Fail(st, "badrequest")

\* Bodies a client sends: those of SExpenseInputs with a date, and ones that
\* some check of Validate refuses.
HExpenseInputs ==
    LET e == CHOOSE x \in SExpenseInputs : x.ID # EmptyId
    IN  { e,
          [e EXCEPT !.ID = EmptyId, !.Name = "tea & cake",
                    !.Tags = <<" home ", "<>">>, !.Amount = 450],
          [e EXCEPT !.Amount = 0],
          [e EXCEPT !.Name = "<>"],
          [e EXCEPT !.Category = ""],
          [e EXCEPT !.Date = ZeroTime] }

HRuleInputs ==
    LET r == CHOOSE x \in SRuleInputs : x.Interval = "daily"
    IN  SRuleInputs \cup
        { [r EXCEPT !.Amount = 0],
          [r EXCEPT !.Occurrences = 1],
          [r EXCEPT !.Interval = "hourly"],
          [r EXCEPT !.Name = "<>"],
          [r EXCEPT !.StartDate = ZeroTime] }

HandlerAddExpense ==
    \E e \in HExpenseInputs :
        LET v == ExpenseValidate(e)
        IN  IF v.err # "ok"
            THEN Called("Handler.AddExpense", [expense |-> e],
                        BadRequest(js), BadRequest(db))
            ELSE Called("Handler.AddExpense", [expense |-> e],
                        JsonAddExpense(js, v.e, now, uuid),
                        DbAddExpense(db, v.e, now, uuid))

HandlerEditExpense ==
    \E id \in ExpenseTargets \cup {EmptyId}, e \in HExpenseInputs :
        LET v == ExpenseValidate(e)
        IN  IF id = EmptyId \/ v.err # "ok"
            THEN Called("Handler.EditExpense", [id |-> id, expense |-> e],
                        BadRequest(js), BadRequest(db))
            ELSE Called("Handler.EditExpense", [id |-> id, expense |-> e],
                        JsonUpdateExpense(js, id, v.e),
                        DbUpdateExpense(db, id, v.e))

HandlerAddRecurringExpense ==
    \E r \in HRuleInputs :
        LET v == RecurringExpenseValidate(r)
        IN  IF v.err # "ok"
            THEN Called("Handler.AddRecurringExpense", [rule |-> r],
                        BadRequest(js), BadRequest(db))
            ELSE Called("Handler.AddRecurringExpense", [rule |-> r],
                        JsonAddRecurringExpense(js, v.rule, now, uuid),
                        DbAddRecurringExpense(db, v.rule, now, uuid))

HandlerUpdateRecurringExpense ==
    \E id \in RuleTargets \cup {EmptyId}, r \in HRuleInputs,
       updateAll \in BOOLEAN :
        LET v == RecurringExpenseValidate(r)
            args == [id |-> id, rule |-> r, all |-> updateAll]
        IN  IF id = EmptyId \/ v.err # "ok"
            THEN Called("Handler.UpdateRecurringExpense", args,
                        BadRequest(js), BadRequest(db))
            ELSE Called("Handler.UpdateRecurringExpense", args,
                        JsonUpdateRecurringExpense(js, id, v.rule, updateAll,
                                                   now, uuid),
                        DbUpdateRecurringExpense(db, id, v.rule, updateAll,
                                                 now, uuid))


\* ImportCSV.  A file is its header (whether the optional id and currency
\* columns are there) and its data rows, each field as the text of the cell;
\* the tags cell is given as already split at the commas.
ParseFloat(s) ==
    CASE s = "12.50" -> [err |-> "ok", v |-> 1250]
      [] s = "-3"    -> [err |-> "ok", v |-> -300]
      [] s = "0"     -> [err |-> "ok", v |-> 0]
      [] s = "0.00"  -> [err |-> "ok", v |-> 0]
      [] OTHER       -> [err |-> "syntax", v |-> 0]

parseDate(s) ==
    CASE s = "2024-01-05" -> [err |-> "ok", v |-> Date(2024, 1, 5)]
      [] s = "2024/1/7"   -> [err |-> "ok", v |-> Date(2024, 1, 7)]
      [] OTHER            -> [err |-> "format", v |-> ZeroTime]

TrimSpace(s) ==
    CASE s = " home " -> "home"
      [] s = " Pets"  -> "Pets"
      [] OTHER        -> s

ToLower(s) ==
    CASE s = "Food" -> "food"
      [] s = "Pets" -> "pets"
      [] s = "PETS" -> "pets"
      [] OTHER      -> s

RECURSIVE TrimAll(_, _)
TrimAll(tags, i) ==
    IF i > Len(tags) THEN << >>
    ELSE <<TrimSpace(tags[i])>> \o TrimAll(tags, i + 1)

StoreGetExpense(kind, st, id) ==
    IF kind = "js" THEN JsonGetExpense(st, id) ELSE DbGetExpense(st, id)

StoreAddExpense(kind, st, e, today, n) ==
    IF kind = "js" THEN JsonAddExpense(st, e, today, n)
    ELSE DbAddExpense(st, e, today, n)

\* GetCategories and GetCurrency: the file store reads its config document,
\* the relational store goes through GetConfig.
StoreGetConfig(kind, st) ==
    IF kind = "js" THEN [st |-> st, config |-> st.config]
    ELSE [st |-> DbGetConfig(st).st, config |-> DbGetConfig(st).config]

StoreUpdateCategories(kind, st, categories) ==
    IF kind = "js" THEN JsonUpdateCategories(st, categories)
    ELSE DbUpdateCategories(st, categories)

\* A data row under the header id, name, category, amount, currency, date,
\* tags.
CsvRow ==
    [ID |-> 5, Name |-> " home ", Category |-> " Pets", Amount |-> "12.50",
     Currency |-> "eur", Date |-> "2024-01-05", Tags |-> <<" home ", "<>">>]

\* A variant that goes on to the next row without counting the one skipped.
SkippedUncounted(acc) ==
    acc

\* skippedCount++ ; continue
Skipped(acc) ==
    [acc EXCEPT !.skipped = @ + 1]

\* len(record) != len(header): the row has not the columns of the header.
WrongColumns(record, header) == DOMAIN record # DOMAIN header

\* What the response of an import that never reached its row loop says.
NoCounts == [total |-> 0, imported |-> 0, skipped |-> 0]

\* The loop over the data rows from row i on.  acc is [st, used, seen, new,
\* imported, skipped]: the store, the identifiers generated, the category
\* set, the new categories and the numbers of rows imported and skipped.
RECURSIVE ImportRows(_, _, _, _, _, _, _)
ImportRows(kind, file, i, acc, currencyVal, today, n) ==
    IF i > Len(file.rows) THEN acc
    ELSE
    LET record   == file.rows[i]
        skip     == ImportRows(kind, file, i + 1, Skipped(acc), currencyVal,
                               today, n)
        amount   == ParseFloat(record.Amount)
        date     == parseDate(record.Date)
        category == TrimSpace(record.Category)
        isNew    == ToLower(category) \notin acc.seen
        seen1    == acc.seen \cup {ToLower(category)}
        new1     == IF isNew THEN Append(acc.new, category) ELSE acc.new
        acc1     == [acc EXCEPT !.seen = seen1, !.new = new1]
        skip1    == ImportRows(kind, file, i + 1, Skipped(acc1), currencyVal,
                               today, n)
        expense  == [ID |-> EmptyId, RecurringID |-> EmptyId,
                     Name |-> TrimSpace(record.Name), Category |-> category,
                     Amount |-> amount.v,
                     Currency |-> IF file.currencyExists
                                  THEN TrimSpace(record.Currency)
                                  ELSE currencyVal,
                     Date |-> date.v, Tags |-> TrimAll(record.Tags, 1)]
        v        == ExpenseValidate(expense)
        added    == StoreAddExpense(kind, acc.st, v.e, today, n + acc.used)
    IN  IF WrongColumns(record, CsvRow) THEN skip
        ELSE IF file.idExists
           /\ StoreGetExpense(kind, acc.st, record.ID).err = "ok" THEN skip
        ELSE IF file.currencyExists
                /\ record.Currency \notin SupportedCurrencies THEN skip
        ELSE IF amount.err # "ok" THEN skip
        ELSE IF date.err # "ok" THEN skip
        ELSE IF v.err # "ok" THEN skip1
        ELSE IF added.err # "ok" THEN skip1
        ELSE ImportRows(kind, file, i + 1,
                        [acc1 EXCEPT !.st = added.st,
                                     !.used = @ + added.used,
                                     !.imported = @ + 1],
                        currencyVal, today, n)

RECURSIVE LowerAll(_, _)
LowerAll(cats, i) ==
    IF i > Len(cats) THEN {} ELSE {ToLower(cats[i])} \cup LowerAll(cats, i + 1)

ImportCSV(kind, st, file, today, n) ==
    IF Len(file.rows) < 1 THEN BadRequest(st) @@ [imported |-> 0, got |-> NoCounts]
    ELSE
    LET cats == StoreGetConfig(kind, st)
        cur  == StoreGetConfig(kind, cats.st)
        done == ImportRows(kind, file, 1,
                           [st |-> cur.st, used |-> 0,
                            seen |-> LowerAll(cats.config.Categories, 1),
                            new |-> << >>, imported |-> 0, skipped |-> 0],
                           cur.config.Currency, today, n)
        st1  == IF Len(done.new) > 0
                THEN StoreUpdateCategories(kind, done.st,
                         cats.config.Categories \o done.new).st
                ELSE done.st
    IN  [st |-> st1, err |-> "ok", used |-> done.used,
         imported |-> done.imported,
         got |-> [total |-> Len(file.rows), imported |-> done.imported,
                  skipped |-> done.skipped]]

CsvFiles ==
    { [idExists |-> TRUE, currencyExists |-> TRUE,
       rows |-> <<CsvRow, [CsvRow EXCEPT !.ID = 9, !.Amount = "0.00"]>>],
      [idExists |-> FALSE, currencyExists |-> FALSE,
       rows |-> <<[CsvRow EXCEPT !.Amount = "0", !.Category = "Food"],
                  [CsvRow EXCEPT !.Amount = "-3", !.Category = "PETS",
                                 !.Date = "2024/1/7"]>>],
      [idExists |-> TRUE, currencyExists |-> TRUE,
       rows |-> <<[CsvRow EXCEPT !.Amount = "abc"],
                  [CsvRow EXCEPT !.Currency = "xyz"]>>],
      [idExists |-> FALSE, currencyExists |-> TRUE,
       rows |-> <<[CsvRow EXCEPT !.Date = "soon"],
                  [CsvRow EXCEPT !.Name = "<>"]>>],
      [idExists |-> FALSE, currencyExists |-> FALSE, rows |-> << >>] }

HandlerImportCSV ==
    \E file \in CsvFiles :
        Called("Handler.ImportCSV", [file |-> file],
               ImportCSV("js", js, file, now, uuid),
               ImportCSV("db", db, file, now, uuid))

ApiNext ==
    \/ HandlerAddExpense
    \/ HandlerEditExpense
    \/ HandlerImportCSV
    \/ HandlerAddRecurringExpense
    \/ HandlerUpdateRecurringExpense
    \/ Tick

SpecApi == SInit /\ [][ApiNext]_vars

\* C13: through the handlers that validate their input (add and edit
\* expense, CSV import, add and update recurring rule with the instances
\* they materialise), no stored expense has amount exactly 0, in either store.
C13_NoZeroAmount ==
    /\ \A i \in DOMAIN js.expenses : js.expenses[i].Amount # 0
    /\ \A x \in db.expenses : x.Amount # 0

\* The same for the expenses that belong to no rule: the handlers of
\* expenses and the import leave no amount 0.
C_NoZeroAmountOutsideRules ==
    /\ \A i \in DOMAIN js.expenses :
          js.expenses[i].RecurringID = EmptyId => js.expenses[i].Amount # 0
    /\ \A x \in db.expenses : x.RecurringID = EmptyId => x.Amount # 0


\* The handlers of rules answer 400 for a rule with fewer than two
\* occurrences or an interval that is none of the four, and call no store.
C_InvalidRule(r) == r.Occurrences < 2 \/ r.Interval \notin ValidIntervals

C_HandlersRejectInvalidRules ==
    (/\ last.op \in {"Handler.AddRecurringExpense",
                     "Handler.UpdateRecurringExpense"}
     /\ C_InvalidRule(last.args.rule))
    => /\ last.err = [js |-> "badrequest", db |-> "badrequest"]
       /\ js = last.pre.js
       /\ db = last.pre.db

\* ------------------------- specification: rule calls with any rule, valid or not
\* The calls AddRecurringExpense and UpdateRecurringExpense of the Storage
\* contract, made with the rules of SRuleInputs and with rules that
\* RecurringExpense.Validate refuses.
InvalidRules ==
    LET r == CHOOSE x \in SRuleInputs : x.Interval = "daily"
    IN  { [r EXCEPT !.Occurrences = 1],
          [r EXCEPT !.Interval = "hourly"],
          [r EXCEPT !.Interval = "hourly", !.Occurrences = 1] }

AddAnyRecurringExpense ==
    \E r \in SRuleInputs \cup InvalidRules :
        Called("AddRecurringExpense", [rule |-> r],
               JsonAddRecurringExpense(js, r, now, uuid),
               DbAddRecurringExpense(db, r, now, uuid))

UpdateAnyRecurringExpense ==
    \E id \in RuleTargets, r \in SRuleInputs \cup InvalidRules,
       updateAll \in BOOLEAN :
        Called("UpdateRecurringExpense",
               [id |-> id, rule |-> r, all |-> updateAll],
               JsonUpdateRecurringExpense(js, id, r, updateAll, now, uuid),
               DbUpdateRecurringExpense(db, id, r, updateAll, now, uuid))

AnyRuleNext ==
    \/ AddAnyRecurringExpense
    \/ UpdateAnyRecurringExpense
    \/ Tick

SpecAnyRule == SInit /\ [][AnyRuleNext]_vars

\* C19: AddRecurringExpense and UpdateRecurringExpense of the Storage
\* contract reject every rule whose occurrence count is below 2 or whose
\* interval is none of daily, weekly, monthly, yearly, and leave the rule
\* list and the expenses as they were, in either store.
C19_InvalidRuleRejected ==
    (/\ last.op \in {"AddRecurringExpense", "UpdateRecurringExpense"}
     /\ C_InvalidRule(last.args.rule))
    => /\ last.err.js # "ok"
       /\ last.err.db # "ok"
       /\ js.config.RecurringExpenses = last.pre.js.config.RecurringExpenses
       /\ js.expenses = last.pre.js.expenses
       /\ db.recurring = last.pre.db.recurring
       /\ db.expenses = last.pre.db.expenses


\* ------------- specification: the rule calls of the relational store, by step
\* One caller makes AddRecurringExpense, UpdateRecurringExpense and
\* RemoveRecurringExpense of the relational store, statement by statement.
\* db holds the committed tables, which every other connection reads; the
\* caller's pcs entry holds the tables as its open transaction sees them.
\* Any statement, Begin and Commit may fail.

Tables(d) == [recurring |-> d.recurring, expenses |-> d.expenses]

\* tx.Commit(): the transaction's tables become the committed ones.
Commit(d, tx) == [d EXCEPT !.recurring = tx.recurring, !.expenses = tx.expenses]

\* A variant that keeps what the transaction had written.
RollbackKeeps(d, tx) == Commit(d, tx)

\* The deferred tx.Rollback(): the committed tables stay as they are.
Rollback(d, tx) == d

TxIdle == [pc |-> "idle", op |-> Nil, tx |-> Nil, rule |-> Nil, pre |-> Nil]

TxCalls ==
    { [name |-> "AddRecurringExpense", rule |-> [r EXCEPT !.ID = id]] :
        r \in SRuleInputs, id \in {EmptyId, 1} }
    \cup
    { [name |-> "UpdateRecurringExpense", id |-> id, rule |-> r, all |-> a] :
        id \in {1, 9}, r \in SRuleInputs, a \in BOOLEAN }
    \cup
    { [name |-> "RemoveRecurringExpense", id |-> id, all |-> a] :
        id \in {1, 9}, a \in BOOLEAN }

TxInit ==
    /\ EngineIdle
    /\ \E reopened \in BOOLEAN :
        /\ js = IF reopened THEN EarlierJson.st ELSE InitializeJsonStore
        /\ db = IF reopened THEN EarlierDb.st ELSE InitializePostgresStore
        /\ uuid = IF reopened THEN EarlierJson.used ELSE 0
    /\ now = Clock0
    /\ calls = 0
    /\ last = NoCall
    /\ mu = [writer |-> 0, readers |-> {}]
    /\ pcs = <<TxIdle>>

TxStatic == <<xin, xout, js, now, mu>>

\* The call returns err from the step named; d is the committed state it
\* leaves.
TxReturn(err, step, d) ==
    /\ pcs' = <<TxIdle>>
    /\ db' = d
    /\ last' = [op |-> pcs[1].op.name, args |-> pcs[1].op, today |-> now,
                n |-> uuid, pre |-> [db |-> pcs[1].pre],
                err |-> [db |-> err], step |-> step, tx |-> pcs[1].tx]

\* The statement failed: the method returns and its deferred Rollback runs.
TxFail(err, step) == TxReturn(err, step, Rollback(db, pcs[1].tx))

TxGoto(pc, tx) ==
    /\ pcs' = <<[pcs[1] EXCEPT !.pc = pc, !.tx = tx]>>
    /\ UNCHANGED <<db, last>>

TxCall ==
    /\ pcs[1].pc = "idle"
    /\ calls < MaxCalls
    /\ calls' = calls + 1
    /\ \E op \in TxCalls :
        pcs' = <<[pc |-> "Begin", op |-> op, tx |-> Nil, rule |-> Nil,
                  pre |-> Tables(db)]>>
    /\ UNCHANGED <<db, uuid, last>>
    /\ UNCHANGED TxStatic

\* s.db.Begin()
TxBegin ==
    /\ pcs[1].pc = "Begin"
    /\ \E fault \in BOOLEAN :
        IF fault THEN TxReturn("substrate", "Begin", db)
        ELSE TxGoto("Rule", Tables(db))
    /\ UNCHANGED <<uuid, calls>>
    /\ UNCHANGED TxStatic

\* The statement on the rule row: INSERT, UPDATE or DELETE.
TxExecRule ==
    /\ pcs[1].pc = "Rule"
    /\ LET op == pcs[1].op
           tx == pcs[1].tx
       IN  \E fault \in BOOLEAN :
           CASE op.name = "AddRecurringExpense" ->
                  LET rule == FillRule(op.rule, db.defaults, uuid)
                  IN  /\ uuid' = uuid + RuleUsed(op.rule)
                      /\ IF fault \/ HasRow(tx.recurring, rule.ID)
                         THEN TxFail("substrate", "Rule")
                         ELSE /\ pcs' = <<[pcs[1] EXCEPT
                                   !.pc = "Copy", !.rule = rule,
                                   !.tx.recurring = @ \cup {rule}]>>
                              /\ UNCHANGED <<db, last>>
             [] op.name = "UpdateRecurringExpense" ->
                  LET rule == UpdatedRule(op.rule, db.defaults, op.id)
                  IN  /\ UNCHANGED uuid
                      /\ IF fault THEN TxFail("substrate", "Rule")
                         ELSE IF ~HasRow(tx.recurring, op.id)
                         THEN TxFail("notfound", "Rule")
                         ELSE /\ pcs' = <<[pcs[1] EXCEPT
                                   !.pc = "Delete", !.rule = rule,
                                   !.tx.recurring =
                                       { x \in @ : x.ID # op.id } \cup {rule}]>>
                              /\ UNCHANGED <<db, last>>
             [] op.name = "RemoveRecurringExpense" ->
                  /\ UNCHANGED uuid
                  /\ IF fault THEN TxFail("substrate", "Rule")
                     ELSE IF ~HasRow(tx.recurring, op.id)
                     THEN TxFail("notfound", "Rule")
                     ELSE /\ pcs' = <<[pcs[1] EXCEPT
                               !.pc = "Delete",
                               !.tx.recurring = { x \in @ : x.ID # op.id }]>>
                          /\ UNCHANGED <<db, last>>
    /\ UNCHANGED calls
    /\ UNCHANGED TxStatic

\* DELETE FROM expenses WHERE recurring_id = $1 [AND date > $2]
TxExecDelete ==
    /\ pcs[1].pc = "Delete"
    /\ LET op == pcs[1].op
           tx == pcs[1].tx
       IN  \E fault \in BOOLEAN :
           IF fault THEN TxFail("substrate", "Delete")
           ELSE TxGoto(IF op.name = "UpdateRecurringExpense" THEN "Copy"
                       ELSE "Commit",
                       [tx EXCEPT !.expenses =
                            @ \ DeletedRows(@, op.id, op.all, now)])
    /\ UNCHANGED <<uuid, calls>>
    /\ UNCHANGED TxStatic

\* generateExpensesFromRecurring and, when it gave instances, the copy-in.
TxCopyIn ==
    /\ pcs[1].pc = "Copy"
    /\ LET op == pcs[1].op
           tx == pcs[1].tx
           fromToday == op.name = "UpdateRecurringExpense" /\ ~op.all
           expensesToAdd ==
               generateExpensesFromRecurring(pcs[1].rule, fromToday, now, uuid)
       IN  /\ uuid' = uuid + Len(expensesToAdd)
           /\ \E fault \in (IF Len(expensesToAdd) > 0 THEN BOOLEAN ELSE {FALSE}) :
               IF fault THEN TxFail("substrate", "Copy")
               ELSE TxGoto("Commit",
                           [tx EXCEPT !.expenses = @ \cup Range(expensesToAdd)])
    /\ UNCHANGED calls
    /\ UNCHANGED TxStatic

\* tx.Commit()
TxCommit ==
    /\ pcs[1].pc = "Commit"
    /\ \E fault \in BOOLEAN :
        IF fault THEN TxFail("substrate", "Commit")
        ELSE TxReturn("ok", "Commit", Commit(db, pcs[1].tx))
    /\ UNCHANGED <<uuid, calls>>
    /\ UNCHANGED TxStatic

TxNext ==
    \/ TxCall
    \/ TxBegin
    \/ TxExecRule
    \/ TxExecDelete
    \/ TxCopyIn
    \/ TxCommit
    \/ Tick

SpecTx == TxInit /\ [][TxNext]_vars

\* C18: in the relational store, when a step of AddRecurringExpense,
\* UpdateRecurringExpense or RemoveRecurringExpense fails (Begin, the rule
\* row statement, the dependent delete, the copy-in or Commit), the call
\* returns an error and the rule table and the expense table are exactly as
\* before the call; while the call runs the committed tables do not change,
\* and a call that succeeds publishes the rule change and the expense
\* changes in one step.
C18_RuleCallsAtomic ==
    /\ pcs[1].pc # "idle" => Tables(db) = pcs[1].pre
    /\ (pcs[1].pc = "idle" /\ last.op \in RuleCalls)
       => IF last.err.db = "ok"
          THEN Tables(db) = last.tx
          ELSE Tables(db) = last.pre.db

\* A call on a store with rows failed after its transaction had changed
\* both tables.
C18_Witness ==
    /\ pcs[1].pc = "idle"
    /\ last.op = "UpdateRecurringExpense"
    /\ last.err.db = "substrate"
    /\ last.step \in {"Copy", "Commit"}
    /\ last.pre.db.expenses # {}
    /\ last.tx.recurring # last.pre.db.recurring
    /\ last.tx.expenses # last.pre.db.expenses
    /\ Tables(db) = last.pre.db

\* ------------------------------------------------- claims on expense defaults
\* The expense a call added is stored with its date set to the time of the
\* call, in both stores.
C_StoredWithDateOfCall(e) ==
    /\ last.err = [js |-> "ok", db |-> "ok"]
    /\ \E i \in DOMAIN js.expenses :
          /\ js.expenses[i].Name = e.Name
          /\ js.expenses[i].ID = C_StoredId(e, last.n)
          /\ js.expenses[i].Date = last.today
    /\ \E x \in db.expenses :
          /\ x.Name = e.Name
          /\ x.ID = C_StoredId(e, last.n)
          /\ x.Date = last.today

\* C21: adding an expense whose timestamp is zero succeeds and stores it
\* dated at the time of the call, through the handler of add-expense as
\* through the AddExpense of the stores.
C21_ZeroDateAdded ==
    (/\ last.op = "Handler.AddExpense"
     /\ last.args.expense.Date = ZeroTime
     /\ ExpenseValidate([last.args.expense EXCEPT !.Date = 0]).err = "ok")
    => C_StoredWithDateOfCall(last.args.expense)

\* The AddExpense of the stores, called directly, does so.
C_ZeroDateAddedByStore ==
    (/\ last.op = "AddExpense"
     /\ last.args.expense.Date = ZeroTime
     /\ last.err.db = "ok")
    => C_StoredWithDateOfCall(last.args.expense)

C_ZeroDateAddedByStoreReached ==
    /\ last.op = "AddExpense"
    /\ last.args.expense.Date = ZeroTime
    /\ last.err = [js |-> "ok", db |-> "ok"]

\* ------------------------------ specification: the contract with all its reads
\* The calls of SpecStore and the reads that return lists and rules.  A read
\* of the relational store returns its rows in the order the query gives:
\* GetAllExpenses by date, latest first, rows of one date in any order;
\* GetRecurringExpenses, which has no ORDER BY, in any order.

\* The sequences that list the rows by date, latest first.
RECURSIVE ByDateDesc(_)
ByDateDesc(rows) ==
    IF rows = {} THEN { << >> }
    ELSE LET top == { x \in rows : \A y \in rows : y.Date <= x.Date }
         IN  UNION { { <<x>> \o l : l \in ByDateDesc(rows \ {x}) } : x \in top }

\* The sequences that list the rows in some order.
RECURSIVE AnyOrder(_)
AnyOrder(rows) ==
    IF rows = {} THEN { << >> }
    ELSE UNION { { <<x>> \o l : l \in AnyOrder(rows \ {x}) } : x \in rows }

RECURSIVE ScanAll(_, _)
ScanAll(l, i) ==
    IF i > Len(l) THEN << >> ELSE <<scanExpense(l[i])>> \o ScanAll(l, i + 1)

JsonGetAllExpenses(s) ==
    [st |-> s, err |-> "ok", used |-> 0, got |-> s.expenses]

\* The results GetAllExpenses may return.
DbGetAllExpenses(d) ==
    { [st |-> d, err |-> "ok", used |-> 0, got |-> ScanAll(l, 1)] :
        l \in ByDateDesc(d.expenses) }

JsonGetRecurringExpenses(s) ==
    [st |-> s, err |-> "ok", used |-> 0, got |-> s.config.RecurringExpenses]

DbGetRecurringExpenses(d) ==
    { [st |-> d, err |-> "ok", used |-> 0, got |-> l] :
        l \in AnyOrder(d.recurring) }

NoRule == [none |-> TRUE]

JsonGetRecurringExpense(s, id) ==
    LET rs   == s.config.RecurringExpenses
        hits == { i \in DOMAIN rs : rs[i].ID = id }
    IN  IF hits = {}
        THEN [st |-> s, err |-> "notfound", used |-> 0, got |-> NoRule]
        ELSE [st |-> s, err |-> "ok", used |-> 0,
              got |-> rs[CHOOSE i \in hits : \A k \in hits : i <= k]]

\* The columns GetRecurringExpense selects and the fields
\* scanRecurringExpense scans into.
GetRecurringExpenseColumns ==
    <<"id", "name", "amount", "category", "start_date", "interval",
      "occurrences", "tags">>

scanRecurringExpenseDest ==
    <<"ID", "Name", "Amount", "Currency", "Category", "StartDate", "Interval",
      "Occurrences", "Tags">>

\* Scan fails when the row has not as many columns as there are destinations.
scanRecurringExpense(columns, row) ==
    IF Len(columns) # Len(scanRecurringExpenseDest)
    THEN [err |-> "scan", got |-> NoRule]
    ELSE [err |-> "ok", got |-> row]

DbGetRecurringExpense(d, id) ==
    IF ~HasRow(d.recurring, id)
    THEN [st |-> d, err |-> "notfound", used |-> 0, got |-> NoRule]
    ELSE LET re == scanRecurringExpense(GetRecurringExpenseColumns,
                                        CHOOSE x \in d.recurring : x.ID = id)
         IN  [st |-> d, err |-> re.err, used |-> 0, got |-> re.got]

\* The results GetConfig may return: the base config, saved, when the row is
\* missing; otherwise the row with the rules of GetRecurringExpenses.
DbGetConfigAll(d) ==
    IF d.config = NoRow
    THEN { [st |-> DbGetConfig(d).st, err |-> "ok", used |-> 0,
            got |-> SetBaseConfig] }
    ELSE { [st |-> d, err |-> "ok", used |-> 0,
            got |-> [Categories |-> d.config.Categories,
                     Currency   |-> d.config.Currency,
                     StartDate  |-> d.config.StartDate,
                     RecurringExpenses |-> r.got]] :
             r \in DbGetRecurringExpenses(d) }

GetAllExpenses ==
    \E q \in DbGetAllExpenses(db) :
        Queried("GetAllExpenses", [none |-> TRUE], JsonGetAllExpenses(js), q)

GetRecurringExpenses ==
    \E q \in DbGetRecurringExpenses(db) :
        Queried("GetRecurringExpenses", [none |-> TRUE],
                JsonGetRecurringExpenses(js), q)

GetRecurringExpense ==
    \E id \in RuleTargets :
        Queried("GetRecurringExpense", [id |-> id],
                JsonGetRecurringExpense(js, id), DbGetRecurringExpense(db, id))

GetConfigAll ==
    \E q \in DbGetConfigAll(db) :
        Queried("GetConfig", [all |-> TRUE],
                [st |-> js, err |-> "ok", used |-> 0, got |-> js.config], q)

ReadsNext ==
    \/ StoreNext
    \/ GetAllExpenses
    \/ GetRecurringExpenses
    \/ GetRecurringExpense
    \/ GetConfigAll

SpecReads == SInit /\ [][ReadsNext]_vars

\* Both stores freshly initialised.
FreshInit ==
    /\ EngineIdle
    /\ js = InitializeJsonStore
    /\ db = InitializePostgresStore
    /\ uuid = 0
    /\ now = Clock0
    /\ calls = 0
    /\ last = NoCall
    /\ NoCallers

SpecFresh == FreshInit /\ [][ReadsNext]_vars

\* ------------------------------------------------------- claims on the reads
\* The values the two stores returned are the same; lists of rules, whose
\* order the relational store leaves open, are compared as sets.
C_SameGot(op, a, b) ==
    CASE op = "GetConfig" ->
           /\ a.Categories = b.Categories
           /\ a.Currency = b.Currency
           /\ a.StartDate = b.StartDate
           /\ "RecurringExpenses" \in DOMAIN b
                => Range(a.RecurringExpenses) = Range(b.RecurringExpenses)
      [] op = "GetRecurringExpenses" -> Range(a) = Range(b)
      [] OTHER -> a = b

\* C22: applied to a freshly initialised file-backed store and a freshly
\* initialised relational store, with the same clock and the same generated
\* identifiers, every call returns the same outcome in both: the same error
\* kind and, on success, the same records, including an expense's currency
\* and the order of the list of GetAllExpenses.
C22_SameOutcome ==
    last.op # "none"
    => /\ last.err.js = last.err.db
       /\ ("got" \in DOMAIN last /\ last.err.js = "ok")
            => C_SameGot(last.op, last.got.js, last.got.db)

\* The two differences the stores show in what they return on success: the
\* currency of an expense read back, and the order of the list of all
\* expenses when no two of them have the same date.
C_CurrencyDiffers ==
    /\ last.op = "GetExpense"
    /\ last.err = [js |-> "ok", db |-> "ok"]
    /\ last.got.js.Currency # last.got.db.Currency
    /\ [last.got.js EXCEPT !.Currency = ""] = last.got.db

C_OrderDiffers ==
    /\ last.op = "GetAllExpenses"
    /\ Range(ScanAll(last.got.js, 1)) = Range(last.got.db)
    /\ \A i, k \in DOMAIN last.got.db :
          i # k => last.got.db[i].Date # last.got.db[k].Date
    /\ ScanAll(last.got.js, 1) # last.got.db

\* The file-backed store returns a stored rule whole, and not-found exactly
\* when no rule has the identifier.
C_GetRuleJson ==
    last.op = "GetRecurringExpense"
    => IF HasRule(js.config, last.args.id)
       THEN /\ last.err.js = "ok"
            /\ last.got.js \in Range(js.config.RecurringExpenses)
            /\ last.got.js.ID = last.args.id
       ELSE last.err.js = "notfound"

C_GetRuleDb ==
    last.op = "GetRecurringExpense"
    => IF HasRow(db.recurring, last.args.id)
       THEN /\ last.err.db = "ok"
            /\ last.got.db \in db.recurring
            /\ last.got.db.ID = last.args.id
       ELSE last.err.db = "notfound"

\* C23: in both stores GetRecurringExpense(id) returns the stored rule, all
\* its fields, whenever a rule with that identifier is stored, and a
\* not-found error exactly when none is.
C23_GetRule == C_GetRuleJson /\ C_GetRuleDb

\* The relational store does return not-found when no rule has the
\* identifier.
C_GetRuleDbAbsent ==
    (last.op = "GetRecurringExpense" /\ ~HasRow(db.recurring, last.args.id))
    => last.err.db = "notfound"

\* ------------------------------------ specification: bulk and single additions
\* AddMultipleExpenses with lists whose records leave the identifier, the
\* currency or the date to the store, next to AddExpense and UpdateCurrency.
BulkLists ==
    LET full == CHOOSE e \in SExpenseInputs : e.ID # EmptyId
    IN  { << >>,
          <<SeedExpense>>,
          <<full, SeedExpense>>,
          <<SeedExpense, [SeedExpense EXCEPT !.Name = "tea"]>>,
          <<[full EXCEPT !.Currency = ""], [full EXCEPT !.ID = 6]>> }

AddManyExpenses ==
    \E l \in BulkLists :
        Called("AddMultipleExpenses", [expenses |-> l],
               JsonAddMultipleExpenses(js, l),
               DbAddMultipleExpenses(db, l, now, uuid))

BulkNext ==
    \/ AddManyExpenses
    \/ AddExpense
    \/ UpdateCurrency
    \/ Tick

SpecBulk == SInit /\ [][BulkNext]_vars

\* AddExpense(l[i]), ..., AddExpense(l[Len(l)]) called one after the other on
\* the file-backed store s and on the relational store d.
RECURSIVE C_AddEachJson(_, _, _, _, _)
C_AddEachJson(s, l, i, today, n) ==
    IF i > Len(l) THEN s
    ELSE LET r == JsonAddExpense(s, l[i], today, n)
         IN  C_AddEachJson(r.st, l, i + 1, today, n + r.used)

RECURSIVE C_AddEachDb(_, _, _, _, _)
C_AddEachDb(d, l, i, today, n) ==
    IF i > Len(l) THEN d
    ELSE LET r == DbAddExpense(d, l[i], today, n)
         IN  C_AddEachDb(r.st, l, i + 1, today, n + r.used)

C_BulkAsEachJson ==
    last.op = "AddMultipleExpenses"
    => js = C_AddEachJson(last.pre.js, last.args.expenses, 1,
                          last.today, last.n)

C_BulkAsEachDb ==
    last.op = "AddMultipleExpenses"
    => db = C_AddEachDb(last.pre.db, last.args.expenses, 1,
                        last.today, last.n)

\* C24: in both stores AddMultipleExpenses([e1..en]) leaves the store as
\* AddExpense(e1), ..., AddExpense(en) called in order would: an empty
\* identifier generated, an empty currency defaulted, a zero date set to the
\* time of the call.
C24_BulkAsEach == C_BulkAsEachJson /\ C_BulkAsEachDb

\* A bulk call with a record that leaves all three to the store was made.
C_BulkWithDefaultsReached ==
    /\ last.op = "AddMultipleExpenses"
    /\ last.err = [js |-> "ok", db |-> "ok"]
    /\ \E i \in DOMAIN last.args.expenses :
          /\ last.args.expenses[i].ID = EmptyId
          /\ last.args.expenses[i].Currency = ""
          /\ last.args.expenses[i].Date = ZeroTime

\* The relational store's bulk call that returned no error did leave the
\* store as the single calls would.
C_BulkAsEachDbWhenOk ==
    (last.op = "AddMultipleExpenses" /\ last.err.db = "ok")
    => db = C_AddEachDb(last.pre.db, last.args.expenses, 1,
                        last.today, last.n)

\* GetConfig of the relational store was called and its whole result kept.
C_GotConfig == last.op = "GetConfig" /\ "all" \in DOMAIN last.args

\* Called when no config row exists, GetConfig saves the default row and
\* succeeds.
C_LazyConfigSaved ==
    (C_GotConfig /\ last.pre.db.config = NoRow)
    => /\ last.err.db = "ok"
       /\ db.config = [Categories |-> defaultCategories, Currency |-> "usd",
                       StartDate |-> 1]

\* C25: in the relational store GetConfig called when no config row exists
\* persists the default row and succeeds; and every successful GetConfig,
\* that first one included, returns as its rule list the rules stored in
\* recurring_expenses.
C25_ConfigWithRules ==
    /\ C_LazyConfigSaved
    /\ (C_GotConfig /\ last.err.db = "ok")
       => Range(last.got.db.RecurringExpenses) = db.recurring

\* Once the row exists the rule list returned is that of the table.
C_RulesReturnedWhenRowExists ==
    (C_GotConfig /\ last.pre.db.config # NoRow)
    => Range(last.got.db.RecurringExpenses) = db.recurring

C_RulesReturnedReached ==
    /\ C_GotConfig
    /\ last.pre.db.config # NoRow
    /\ db.recurring # {}

\* --------------------------- specification: the handlers that write categories
\* The categories-edit handler and the two CSV imports.

\* ValidateCategory: the sanitized name, refused when it is empty.
ValidateCategory(category) ==
    [err |-> IF SanitizeString(category) = "" THEN "empty" ELSE "ok",
     v   |-> SanitizeString(category)]

RECURSIVE SanitizeAll(_, _)
SanitizeAll(categories, i) ==
    IF i > Len(categories) THEN << >>
    ELSE <<ValidateCategory(categories[i]).v>> \o SanitizeAll(categories, i + 1)

CategoryLists ==
    { <<"Food", "Pets">>, <<"Food", "tea & cake">>, <<"Food", "<>">>, << >> }

HandlerUpdateCategories ==
    \E categories \in CategoryLists :
        IF \E i \in DOMAIN categories :
              ValidateCategory(categories[i]).err # "ok"
        THEN Called("Handler.UpdateCategories", [categories |-> categories],
                    BadRequest(js), BadRequest(db))
        ELSE Called("Handler.UpdateCategories", [categories |-> categories],
                    JsonUpdateCategories(js, SanitizeAll(categories, 1)),
                    DbUpdateCategories(db, SanitizeAll(categories, 1)))

\* A data row under the header name, category, amount, date.
OldCsvRow ==
    [Name |-> " home ", Category |-> " Pets", Amount |-> "12.50",
     Date |-> "2024-01-05"]

\* ImportOldCSV: the loop over the data rows from row i on; acc as in
\* ImportRows.  The sign of the amount is switched but for Income.
RECURSIVE ImportOldRows(_, _, _, _, _, _)
ImportOldRows(kind, file, i, acc, today, n) ==
    IF i > Len(file.rows) THEN acc
    ELSE
    LET record   == file.rows[i]
        skip     == ImportOldRows(kind, file, i + 1, Skipped(acc), today, n)
        amount   == ParseFloat(record.Amount)
        date     == parseDate(record.Date)
        category == TrimSpace(record.Category)
        isNew    == ToLower(category) \notin acc.seen
        acc1     == [acc EXCEPT
                       !.seen = @ \cup {ToLower(category)},
                       !.new = IF isNew THEN Append(@, category) ELSE @]
        skip1    == ImportOldRows(kind, file, i + 1, Skipped(acc1), today, n)
        expense  == [ID |-> EmptyId, RecurringID |-> EmptyId,
                     Name |-> TrimSpace(record.Name), Category |-> category,
                     Amount |-> IF category # "Income" THEN amount.v * (-1)
                                ELSE amount.v,
                     Currency |-> "", Date |-> date.v, Tags |-> << >>]
        v        == ExpenseValidate(expense)
        added    == StoreAddExpense(kind, acc.st, v.e, today, n + acc.used)
    IN  IF WrongColumns(record, OldCsvRow) THEN skip
        ELSE IF amount.err # "ok" THEN skip
        ELSE IF date.err # "ok" THEN skip
        ELSE IF v.err # "ok" THEN skip1
        ELSE IF added.err # "ok" THEN skip1
        ELSE ImportOldRows(kind, file, i + 1,
                           [acc1 EXCEPT !.st = added.st,
                                        !.used = @ + added.used,
                                        !.imported = @ + 1],
                           today, n)

ImportOldCSV(kind, st, file, today, n) ==
    IF Len(file.rows) < 1 THEN BadRequest(st) @@ [imported |-> 0, got |-> NoCounts]
    ELSE
    LET cats == StoreGetConfig(kind, st)
        done == ImportOldRows(kind, file, 1,
                              [st |-> cats.st, used |-> 0,
                               seen |-> LowerAll(cats.config.Categories, 1),
                               new |-> << >>, imported |-> 0, skipped |-> 0],
                              today, n)
        st1  == IF Len(done.new) > 0
                THEN StoreUpdateCategories(kind, done.st,
                         cats.config.Categories \o done.new).st
                ELSE done.st
    IN  [st |-> st1, err |-> "ok", used |-> done.used,
         imported |-> done.imported,
         got |-> [total |-> Len(file.rows), imported |-> done.imported,
                  skipped |-> done.skipped]]

OldCsvFiles ==
    { [rows |-> <<OldCsvRow, [OldCsvRow EXCEPT !.Category = "Income"]>>],
      [rows |-> <<[OldCsvRow EXCEPT !.Category = "tea & cake"]>>],
      [rows |-> <<[OldCsvRow EXCEPT !.Category = ""]>>],
      [rows |-> <<[OldCsvRow EXCEPT !.Amount = "abc", !.Category = "PETS"],
                  [OldCsvRow EXCEPT !.Date = "soon", !.Category = "PETS"]>>],
      [rows |-> <<[OldCsvRow EXCEPT !.Amount = "0", !.Category = "Food"]>>],
      [rows |-> << >>] }

HandlerImportOldCSV ==
    \E file \in OldCsvFiles :
        Called("Handler.ImportOldCSV", [file |-> file],
               ImportOldCSV("js", js, file, now, uuid),
               ImportOldCSV("db", db, file, now, uuid))

CategoriesNext ==
    \/ HandlerUpdateCategories
    \/ HandlerImportCSV
    \/ HandlerImportOldCSV
    \/ Tick

SpecCategories == SInit /\ [][CategoriesNext]_vars

\* ---------------------------------------------------- claims on categories
C_Sanitized(c) == c # "" /\ SanitizeString(c) = c

C_StoredCategoriesSanitized ==
    /\ \A i \in DOMAIN js.config.Categories :
          C_Sanitized(js.config.Categories[i])
    /\ db.config # NoRow
         => \A i \in DOMAIN db.config.Categories :
               C_Sanitized(db.config.Categories[i])

\* The categories-edit handler refuses a list with a category that is empty
\* once sanitized, and leaves the stored list as it was.
C_CategoriesEditRejects ==
    (/\ last.op = "Handler.UpdateCategories"
     /\ \E i \in DOMAIN last.args.categories :
           SanitizeString(last.args.categories[i]) = "")
    => /\ last.err = [js |-> "badrequest", db |-> "badrequest"]
       /\ js = last.pre.js
       /\ db = last.pre.db

\* Every category an import added is the category of an expense it imported.
C_SkippedRowAddsNoCategory ==
    last.op \in {"Handler.ImportCSV", "Handler.ImportOldCSV"}
    => \A c \in Range(js.config.Categories)
                  \ Range(last.pre.js.config.Categories) :
          \E i \in DOMAIN js.expenses :
              /\ i > Len(last.pre.js.expenses)
              /\ js.expenses[i].Category = c

\* C26: through the categories-edit handler and both CSV imports every entry
\* of the stored category list is a non-empty sanitized string; an update
\* with a category that is empty after sanitization is rejected and leaves
\* the list unchanged; and a CSV row that is skipped adds no category.
C26_CategoriesSanitized ==
    /\ C_StoredCategoriesSanitized
    /\ C_CategoriesEditRejects
    /\ C_SkippedRowAddsNoCategory

C_CategoriesEditRejectsReached ==
    /\ last.op = "Handler.UpdateCategories"
    /\ last.err = [js |-> "badrequest", db |-> "badrequest"]

\* -------------------------------------------------- claims on UpdateExpense
\* The record UpdateExpense(id, e) stores: e under the identifier id, an
\* empty currency replaced by the store's default.
C_UpdatedAs(e, id, defaults) ==
    [e EXCEPT !.ID = id,
              !.Currency = IF @ = "" THEN defaults.currency ELSE @]

C_UpdateFrameJson ==
    LET id   == last.args.id
        old  == last.pre.js.expenses
        hits == { i \in DOMAIN old : old[i].ID = id }
    IN  /\ Len(js.expenses) = Len(old)
        /\ \A i \in DOMAIN old : old[i].ID # id => js.expenses[i] = old[i]
        /\ \A i \in hits :
              (\A k \in hits : i <= k)
              => js.expenses[i]
                   = C_UpdatedAs(last.args.expense, id, last.pre.js.defaults)

C_UpdateFrameDb ==
    LET id  == last.args.id
        old == last.pre.db.expenses
    IN  /\ Cardinality(db.expenses) = Cardinality(old)
        /\ { x \in db.expenses : x.ID # id } = { x \in old : x.ID # id }
        /\ C_UpdatedAs(last.args.expense, id, last.pre.db.defaults)
             \in db.expenses

\* C27: after a successful UpdateExpense(id, e) on a store that holds id, the
\* stored expense with identifier id has e's fields under the identifier id
\* (and the default currency if e's is empty), the number of stored expenses
\* is unchanged, and every expense with another identifier is unchanged and
\* in the same position.
C27_UpdateExpenseFrame ==
    last.op = "UpdateExpense"
    => /\ last.err.js = "ok" => C_UpdateFrameJson
       /\ last.err.db = "ok" => C_UpdateFrameDb

\* An expense that is not the last of several was updated, with an expense
\* that leaves the currency to the store.
C27_Witness ==
    /\ last.op = "UpdateExpense"
    /\ last.err = [js |-> "ok", db |-> "ok"]
    /\ Len(js.expenses) >= 2
    /\ js.expenses[Len(js.expenses)].ID # last.args.id
    /\ last.args.expense.Currency = ""
    /\ last.args.expense.ID # last.args.id

\* ------------------------------------- claims on rules of unknown interval
\* C28: for a rule whose interval is none of daily, weekly, monthly, yearly,
\* expand returns, for both values of fromToday, only what was produced
\* before the interval was met: at most one record, dated at the rule's
\* start date, when fromToday is false, and no record when fromToday is true
\* and the start date is before now.
C28_UnknownInterval ==
    (XDone /\ xin.rule.Interval \notin ValidIntervals)
    => /\ Len(xout.out) <= 1
       /\ \A i \in DOMAIN xout.out : xout.out[i].Date = xin.rule.StartDate
       /\ (~xin.fromToday /\ xin.rule.Occurrences >= 1) => Len(xout.out) = 1
       /\ (xin.fromToday /\ xin.rule.StartDate < xin.today)
            => xout.out = << >>

\* Both cases happen for a rule of several occurrences: the one record, and
\* the early return from the fromToday loop.
C28_Witness ==
    /\ XDone
    /\ xin.rule.Interval \notin ValidIntervals
    /\ xin.rule.Occurrences >= 2
    /\ \/ ~xin.fromToday /\ Len(xout.out) = 1
       \/ /\ xin.fromToday
          /\ xin.rule.StartDate < xin.today
          /\ xout.out = << >>

C_UnknownIntervalFromTodayReached ==
    /\ XDone
    /\ xin.rule.Interval \notin ValidIntervals
    /\ xin.rule.Occurrences >= 2
    /\ xin.fromToday
    /\ xin.rule.StartDate < xin.today
    /\ xout.out = << >>

\* --------- specification: callers of the file store, documents that fail
\* The steps of the concurrent specification, with three additions: reading
\* or writing a document may fail, the getters that go through GetConfig are
\* called too, and sync.RWMutex is modelled with its writer preference: a
\* writer first closes the lock to new readers, then waits for the readers
\* that hold it to leave.  A write that fails leaves its document as it was.

\* The getters take no lock of their own: their one step on the shared state
\* is the call of GetConfig.
GetterCalls ==
    { [name |-> "GetConfig", via |-> "GetCategories"],
      [name |-> "GetConfig", via |-> "GetCurrency"],
      [name |-> "GetConfig", via |-> "GetStartDate"],
      [name |-> "GetConfig", via |-> "GetRecurringExpenses"],
      [name |-> "GetConfig", via |-> "GetRecurringExpense", id |-> SeedRule.ID] }

FaultCalls ==
    WriteCalls \cup ReadCalls \cup GetterCalls \cup
    { [name |-> "UpdateRecurringExpense", id |-> SeedRule.ID,
       rule |-> CHOOSE r \in SRuleInputs : r.Interval = "monthly",
       all |-> TRUE],
      [name |-> "RemoveRecurringExpense", id |-> SeedRule.ID, all |-> FALSE] }

FEntry(op) == IF op.name = "GetConfig" THEN "RLock" ELSE Entry(op)

\* A variant in which an error return leaves the method at once.
DeferredNever(op) ==
    "done"

\* A variant that puts the store back as it was when the call started.
FailedWriteUndone(s, pre) ==
    pre

\* Where an error return goes: to the deferred release of the lock the
\* method took, if it took one.
Deferred(op) ==
    CASE op.name = "GetConfig" \/ op \in ReadCalls -> "RUnlock"
      [] op.name = "AddMultipleExpenses" -> "done"
      [] OTHER -> "Unlock"

\* What a failed write leaves of the store: what the writes before it made.
FailedWrite(s, pre) ==
    s

FInit ==
    /\ EngineIdle
    /\ \E reopened \in BOOLEAN :
        /\ js = IF reopened THEN EarlierJson.st ELSE InitializeJsonStore
        /\ uuid = IF reopened THEN EarlierJson.used ELSE 0
    /\ db = InitializePostgresStore
    /\ now = Clock0
    /\ calls = 0
    /\ last = [op |-> "open", js |-> js, n |-> uuid]
    /\ mu = [writer |-> 0, readers |-> {}, w |-> 0]
    /\ pcs = [p \in Callers |-> Idle]

FCall(p) ==
    /\ At(p, "idle")
    /\ \E op \in FaultCalls :
        pcs' = [pcs EXCEPT ![p] = [pc |-> FEntry(op), op |-> op, config |-> Nil,
                                   data |-> << >>, rule |-> Nil, toAdd |-> << >>,
                                   err |-> ""]]
    /\ UNCHANGED <<js, uuid, mu>>
    /\ UNCHANGED CStatic

\* s.mu.Lock(), first half: the writer takes the writers' mutex and closes
\* the lock to new readers.
LockAnnounce(p) ==
    /\ At(p, "Lock")
    /\ mu.w = 0
    /\ mu' = [mu EXCEPT !.w = p]
    /\ pcs' = Goto(p, "LockWait")
    /\ UNCHANGED <<js, uuid>>
    /\ UNCHANGED CStatic

\* s.mu.Lock(), second half: the readers that held the lock have left.
LockAcquire(p) ==
    /\ At(p, "LockWait")
    /\ mu.readers = {}
    /\ mu' = [mu EXCEPT !.writer = p]
    /\ pcs' = Goto(p, AfterLock(pcs[p].op))
    /\ UNCHANGED <<js, uuid>>
    /\ UNCHANGED CStatic

\* s.mu.RLock(): waits while a writer holds the lock or waits for it.
RLockShared(p) ==
    /\ At(p, "RLock")
    /\ mu.w = 0
    /\ mu' = [mu EXCEPT !.readers = @ \cup {p}]
    /\ pcs' = Goto(p, IF pcs[p].op.name = "GetConfig" THEN "ReadCfg" ELSE "ReadExp")
    /\ UNCHANGED <<js, uuid>>
    /\ UNCHANGED CStatic

\* defer s.mu.Unlock()
UnlockWriter(p) ==
    /\ At(p, "Unlock")
    /\ mu' = [mu EXCEPT !.writer = 0, !.w = 0]
    /\ pcs' = Goto(p, "done")
    /\ UNCHANGED <<js, uuid>>
    /\ UNCHANGED CStatic

\* readConfigFile or readExpensesFile returns an error.
readFails(p) ==
    /\ pcs[p].pc \in {"ReadCfg", "ReadExp"}
    /\ pcs' = [pcs EXCEPT ![p].err = pcs[p].pc,
                          ![p].pc = Deferred(pcs[p].op)]
    /\ UNCHANGED <<js, uuid, mu>>
    /\ UNCHANGED CStatic

\* writeConfigFile or writeExpensesFile returns an error.
writeFails(p) ==
    /\ pcs[p].pc \in {"WriteCfg", "WriteExp"}
    /\ js' = FailedWrite(js, last.js)
    /\ pcs' = [pcs EXCEPT ![p].err = pcs[p].pc,
                          ![p].pc = Deferred(pcs[p].op)]
    /\ UNCHANGED <<uuid, mu>>
    /\ UNCHANGED CStatic

\* A step of a call that has started.
FStep(p) ==
    \/ LockAnnounce(p)
    \/ LockAcquire(p)
    \/ RLockShared(p)
    \/ readConfigFile(p)
    \/ writeConfigFile(p)
    \/ readExpensesFile(p)
    \/ writeExpensesFile(p)
    \/ readFails(p)
    \/ writeFails(p)
    \/ UnlockWriter(p)
    \/ RUnlock(p)

FNext ==
    \E p \in Callers : FCall(p) \/ FStep(p)

SpecFaults == FInit /\ [][FNext]_vars

\* A goroutine that can run does run, and one that waits for the lock is
\* woken when the lock is free for it.
SpecFaultsFair == SpecFaults /\ \A p \in Callers : WF_vars(FStep(p))

\* One caller alone.
OneNext ==
    FCall(1) \/ FStep(1)

SpecFaultsOne == FInit /\ [][OneNext]_vars

\* ------------------------------------------------- claims on the lock
C_Started(p) == ~At(p, "idle") /\ ~At(p, "done")

C_Holds(p) == mu.writer = p \/ mu.w = p \/ p \in mu.readers

\* A call that has returned holds nothing of the lock.
C_ReleasedOnReturn == \A p \in Callers : At(p, "done") => ~C_Holds(p)

\* A call that asks for the lock holds nothing of it.
C_NoReacquire ==
    \A p \in Callers : pcs[p].pc \in {"Lock", "RLock"} => ~C_Holds(p)

\* While a call is under way, some call can take a step.
C_NoDeadlock ==
    (\E p \in Callers : C_Started(p)) => \E p \in Callers : ENABLED FStep(p)

\* C29: every operation of the file store releases the lock on every exit
\* path (success, not found, read failure, write failure), and no operation
\* asks for the lock while the same call holds it; the system never
\* deadlocks, and under fair scheduling every started operation returns.
C29_LockReleased ==
    /\ [](C_ReleasedOnReturn /\ C_NoReacquire /\ C_NoDeadlock)
    /\ \A p \in Callers : C_Started(p) ~> At(p, "done")

\* A write of one caller failed under the lock, and the other caller, a
\* mutating call that takes the lock, returned as well.
C29_Witness ==
    /\ \A p \in Callers : At(p, "done")
    /\ pcs[1].err \in {"WriteCfg", "WriteExp"}
    /\ Deferred(pcs[1].op) = "Unlock"
    /\ Deferred(pcs[2].op) = "Unlock"
    /\ pcs[2].op.name \notin {"UpdateCurrency", "UpdateStartDate"}
    /\ mu = [writer |-> 0, readers |-> {}, w |-> 0]

\* A writer waits for a reader to leave while it keeps new readers out.
C_WriterWaitsReached ==
    \E p, q \in Callers :
        /\ At(p, "LockWait")
        /\ q \in mu.readers

\* ------------------------------------- claims on rule calls that fail
C_RuleOf(config, id) ==
    { config.RecurringExpenses[i] : i \in { j \in DOMAIN config.RecurringExpenses :
                                            config.RecurringExpenses[j].ID = id } }

C_InstancesOf(data, id) ==
    { i \in DOMAIN data : data[i].RecurringID = id }

\* AddRecurringExpense returned the error of its expenses write: the rule is
\* in the config document and the expenses document has none of its
\* instances.
C_AddHalfDone ==
    (/\ At(1, "done")
     /\ pcs[1].op.name = "AddRecurringExpense"
     /\ pcs[1].err = "WriteExp")
    => /\ js.config = AddRecurringExpenseCfg(last.js.config, pcs[1].rule)
       /\ C_RuleOf(js.config, pcs[1].rule.ID) = {pcs[1].rule}
       /\ js.expenses = last.js.expenses
       /\ C_InstancesOf(js.expenses, pcs[1].rule.ID) = {}

\* Update or RemoveRecurringExpense returned the error of its config write:
\* the expenses document is the changed one and the config document is the
\* one the call read, old rule included.
C_ChangeHalfDone ==
    (/\ At(1, "done")
     /\ pcs[1].op.name \in {"UpdateRecurringExpense", "RemoveRecurringExpense"}
     /\ pcs[1].err = "WriteCfg")
    => /\ js.config = last.js.config
       /\ C_RuleOf(js.config, pcs[1].op.id) = {SeedRule}
       /\ js.expenses =
            IF pcs[1].op.name = "UpdateRecurringExpense"
            THEN UpdateRecurringExpenseExp(last.js.expenses, pcs[1].rule,
                                           pcs[1].op.all, now, last.n)
            ELSE KeptExpenses(last.js.expenses, pcs[1].op.id, pcs[1].op.all, now)
       /\ js.expenses # last.js.expenses

\* A rule call that returned no error made all its writes: the documents are
\* those the complete call leaves.
C_NoSilentFailure ==
    (/\ At(1, "done")
     /\ pcs[1].op.name \in RuleCalls
     /\ pcs[1].err = "")
    => js = ApplyCall(last.js, pcs[1].op, now, last.n).st

C_AddHalfDoneReached ==
    /\ At(1, "done")
    /\ pcs[1].op.name = "AddRecurringExpense"
    /\ pcs[1].err = "WriteExp"
    /\ C_RuleOf(js.config, pcs[1].rule.ID) # {}

C_RemoveHalfDoneReached ==
    /\ At(1, "done")
    /\ pcs[1].op.name = "RemoveRecurringExpense"
    /\ pcs[1].err = "WriteCfg"
    /\ js.expenses # last.js.expenses

\* --------------------- specification: rule calls that name any identifier
\* The calls of Spec, with rule updates and removals that name an identifier
\* whether or not a rule carries it: 1, which the seed rule and the caller's
\* own expense refer to, and 9, which nothing refers to.

NamedRules == {1, 9}

UpdateNamedRule ==
    \E id \in NamedRules, r \in SRuleInputs, updateAll \in BOOLEAN :
        Called("UpdateRecurringExpense",
               [id |-> id, rule |-> r, all |-> updateAll],
               JsonUpdateRecurringExpense(js, id, r, updateAll, now, uuid),
               DbUpdateRecurringExpense(db, id, r, updateAll, now, uuid))

RemoveNamedRule ==
    \E id \in NamedRules, removeAll \in BOOLEAN :
        Called("RemoveRecurringExpense", [id |-> id, all |-> removeAll],
               JsonRemoveRecurringExpense(js, id, removeAll, now),
               DbRemoveRecurringExpense(db, id, removeAll, now))

NamedNext ==
    \/ AddRecurringExpense
    \/ AddExpense
    \/ UpdateNamedRule
    \/ RemoveNamedRule
    \/ Tick

SpecNamed == SInit /\ [][NamedNext]_vars

\* ------------------------------------------ claims on absent rule targets
C_RuleCall == last.op \in {"UpdateRecurringExpense", "RemoveRecurringExpense"}

C_AbsentRuleJson == C_RuleCall /\ ~HasRule(last.pre.js.config, last.args.id)

C_AbsentRuleDb == C_RuleCall /\ ~HasRow(last.pre.db.recurring, last.args.id)

\* C31: in both stores UpdateRecurringExpense and RemoveRecurringExpense with
\* an identifier of no stored rule return not found and leave the rule list
\* and the whole expense collection as they were, also when expenses that
\* refer to the identifier exist.
C31_AbsentRuleNoChange ==
    /\ C_AbsentRuleJson => (last.err.js = "notfound" /\ js = last.pre.js)
    /\ C_AbsentRuleDb => (last.err.db = "notfound" /\ db = last.pre.db)

\* The call named a rule that is not stored while expenses refer to it.
C31_Witness ==
    /\ C_AbsentRuleJson
    /\ C_AbsentRuleDb
    /\ \E i \in DOMAIN js.expenses : js.expenses[i].RecurringID = last.args.id
    /\ \E x \in db.expenses : x.RecurringID = last.args.id
    /\ last.err = [js |-> "notfound", db |-> "notfound"]

C_AbsentRuleUpdateReached ==
    /\ C31_Witness
    /\ last.op = "UpdateRecurringExpense"
    /\ last.args.all

\* ------------ specification: concurrent callers of the relational store
\* Two callers, each making one call of the config contract or AddExpense.
\* The store takes no lock and opens no transaction for these calls: a call
\* is its SQL statements and its accesses to the defaults map, one step
\* each, and the steps of the two callers interleave freely.  Two accesses
\* to the map at the same time, one of them a write, are a data race: the
\* accesses may go through, or the runtime stops the process.

DbConfigCalls ==
    { [name |-> "UpdateCategories", categories |-> <<"Food">>],
      [name |-> "UpdateCurrency", currency |-> "eur"],
      [name |-> "UpdateStartDate", startDate |-> 15],
      [name |-> "GetConfig"],
      [name |-> "GetCategories"],
      [name |-> "GetCurrency"],
      [name |-> "GetStartDate"] }

DbUpdates == {"UpdateCategories", "UpdateCurrency", "UpdateStartDate"}

DbCalls == DbConfigCalls \cup { [name |-> "AddExpense", e |-> e] : e \in SExpenseInputs }

\* The columns of the config row.
ConfigRow(config) ==
    [Categories |-> config.Categories, Currency |-> config.Currency,
     StartDate |-> config.StartDate]

\* The updater closure of the call, applied to the copy GetConfig returned.
Updater(op, config) ==
    CASE op.name = "UpdateCategories" -> UpdateCategoriesCfg(config, op.categories)
      [] op.name = "UpdateCurrency" -> UpdateCurrencyCfg(config, op.currency)
      [] op.name = "UpdateStartDate" -> UpdateStartDateCfg(config, op.startDate)
      [] OTHER -> config

\* Where a call goes once GetConfig has returned.
AfterGetConfig(op) == IF op.name \in DbUpdates THEN "Save" ELSE "done"

DInit ==
    /\ EngineIdle
    /\ js = InitializeJsonStore
    /\ \E saved \in BOOLEAN :
        db = IF saved
             THEN [saveConfig(InitializePostgresStore, SetBaseConfig)
                      EXCEPT !.defaults = NoDefaults]
             ELSE InitializePostgresStore
    /\ now = Clock0
    /\ uuid = 0
    /\ calls = 0
    /\ last = [op |-> "open", db |-> db]
    /\ mu = [writer |-> 0, readers |-> {}]
    /\ pcs = [p \in Callers |-> Idle]

DStatic == <<xin, xout, js, now, calls, last, mu>>

DCall(p) ==
    /\ At(p, "idle")
    /\ \E op \in DbCalls :
        pcs' = [pcs EXCEPT ![p] =
                  [pc |-> IF op.name # "AddExpense" THEN "Select"
                          ELSE IF op.e.Currency = "" THEN "ReadMap" ELSE "Insert",
                   op |-> op,
                   config |-> Nil,
                   row |-> IF op.name = "AddExpense" THEN op.e ELSE Nil]]
    /\ UNCHANGED <<db, uuid>>
    /\ UNCHANGED DStatic

\* GetConfig's SELECT of the config row.  No row: the base config is the
\* copy, to be saved first.
DSelect(p) ==
    /\ At(p, "Select")
    /\ pcs' = IF db.config = NoRow
              THEN [pcs EXCEPT ![p].config = ConfigRow(SetBaseConfig),
                               ![p].pc = "SaveInit"]
              ELSE [pcs EXCEPT ![p].config = Updater(pcs[p].op, db.config),
                               ![p].pc = AfterGetConfig(pcs[p].op)]
    /\ UNCHANGED <<db, uuid>>
    /\ UNCHANGED DStatic

\* saveConfig's INSERT ... ON CONFLICT DO UPDATE of the whole row.
DSave(p) ==
    /\ pcs[p].pc \in {"SaveInit", "Save"}
    /\ db' = [db EXCEPT !.config = saveConfig(db, pcs[p].config).config]
    /\ pcs' = Goto(p, IF At(p, "SaveInit") THEN "MapInit" ELSE "Map")
    /\ UNCHANGED uuid
    /\ UNCHANGED DStatic

\* saveConfig's two assignments to the defaults map.
DMap(p) ==
    /\ pcs[p].pc \in {"MapInit", "Map"}
    /\ db' = [db EXCEPT !.defaults = saveConfig(db, pcs[p].config).defaults]
    /\ pcs' = IF At(p, "MapInit")
              THEN [pcs EXCEPT ![p].config = Updater(pcs[p].op, @),
                               ![p].pc = AfterGetConfig(pcs[p].op)]
              ELSE Goto(p, "done")
    /\ UNCHANGED uuid
    /\ UNCHANGED DStatic

\* AddExpense's lookup of the default currency.
DReadMap(p) ==
    /\ At(p, "ReadMap")
    /\ pcs' = [pcs EXCEPT ![p].row.Currency = db.defaults.currency,
                          ![p].pc = "Insert"]
    /\ UNCHANGED <<db, uuid>>
    /\ UNCHANGED DStatic

\* AddExpense's INSERT.
DInsert(p) ==
    /\ At(p, "Insert")
    /\ LET row == FillExpense(pcs[p].row, NoDefaults, now, uuid)
       IN  /\ db' = IF HasRow(db.expenses, row.ID) THEN db
                    ELSE [db EXCEPT !.expenses = @ \cup {row}]
           /\ uuid' = uuid + (IF pcs[p].row.ID = EmptyId THEN 1 ELSE 0)
    /\ pcs' = Goto(p, "done")
    /\ UNCHANGED DStatic

DMapSteps == {"MapInit", "Map", "ReadMap"}

\* Two callers are at the defaults map and one of them writes it.
DRace ==
    \E p, q \in Callers :
        /\ p # q
        /\ pcs[p].pc \in {"MapInit", "Map"}
        /\ pcs[q].pc \in DMapSteps

\* The runtime finds the map in use by another goroutine and stops the
\* process.
DFatal ==
    /\ DRace
    /\ pcs' = [p \in Callers |-> [pcs[p] EXCEPT !.pc = "fatal"]]
    /\ UNCHANGED <<db, uuid>>
    /\ UNCHANGED DStatic

DNext ==
    \/ \E p \in Callers :
        \/ DCall(p)
        \/ DSelect(p)
        \/ DSave(p)
        \/ DMap(p)
        \/ DReadMap(p)
        \/ DInsert(p)
    \/ DFatal

SpecDbConfig == DInit /\ [][DNext]_vars

\* ----------------------- claims on concurrent callers, relational store
\* The caller made a config update whose last statement was executed.
C_UpdateStored(p) ==
    /\ pcs[p].pc \in {"Map", "done"}
    /\ pcs[p].op.name \in DbUpdates

\* The config row holds the value the update carried.
C_ValuePresent(op) ==
    /\ db.config # NoRow
    /\ CASE op.name = "UpdateCategories" -> db.config.Categories = op.categories
         [] op.name = "UpdateCurrency" -> db.config.Currency = op.currency
         [] op.name = "UpdateStartDate" -> db.config.StartDate = op.startDate

C_BothUpdated ==
    \A p \in Callers : At(p, "done") /\ pcs[p].op.name \in DbUpdates

\* C32: when config updates issued concurrently by different callers of the
\* relational store have all returned, the value of each is in the config
\* row; none is overwritten by another caller's write of a stale copy.
C32_NoLostConfigUpdate ==
    C_BothUpdated => \A p \in Callers : C_ValuePresent(pcs[p].op)

\* Two updates of different fields have both returned.
C_TwoUpdatesReached ==
    /\ C_BothUpdated
    /\ pcs[1].op.name # pcs[2].op.name

\* One update alone does store its value.
C_UpdateAloneStored ==
    \A p, q \in Callers :
        (p # q /\ At(p, "done") /\ pcs[p].op.name \in DbUpdates /\ At(q, "idle"))
        => C_ValuePresent(pcs[p].op)

\* C33: a read of the relational store (GetConfig, GetCategories,
\* GetCurrency, GetStartDate) never changes a config value that an update
\* has stored, in any interleaving, the one in which the read finds no
\* config row and saves the default config included.
C33_ReadKeepsStored ==
    \A p, q \in Callers :
        (/\ p # q
         /\ ~At(p, "idle")
         /\ ~At(q, "idle")
         /\ pcs[p].op.name \notin DbUpdates \cup {"AddExpense"}
         /\ C_UpdateStored(q))
        => C_ValuePresent(pcs[q].op)

\* A read found no row while an update was under way, and both returned.
C_LazyReadReached ==
    \E p, q \in Callers :
        /\ At(p, "done") /\ At(q, "done")
        /\ pcs[p].op.name \notin DbUpdates \cup {"AddExpense"}
        /\ pcs[p].config = ConfigRow(SetBaseConfig)
        /\ pcs[q].op.name = "UpdateCurrency"

\* With the config row there before the calls, a read changes nothing.
C_ReadKeepsStoredWhenRow ==
    last.db.config # NoRow => C33_ReadKeepsStored

\* The steps of the file store's calls that read or write its defaults map.
C_JsonMapStep(p) ==
    \/ /\ pcs[p].pc = "ReadCfg"
       /\ pcs[p].op.name \in {"AddRecurringExpense", "UpdateRecurringExpense"}
    \/ /\ pcs[p].pc = "WriteCfg"
       /\ pcs[p].op.name \in {"UpdateCurrency", "UpdateStartDate"}
    \/ /\ pcs[p].pc = "WriteExp"
       /\ pcs[p].op.name \in {"AddExpense", "UpdateExpense"}

\* In the file store every access to the map is made under the exclusive
\* lock.
C_MapUnderLock == \A p \in DOMAIN pcs : C_JsonMapStep(p) => mu.writer = p

\* C34: the defaults map is never accessed by two callers at the same time
\* when one of them writes it: in the file store every access is made under
\* the exclusive lock, and in the relational store no interleaving of calls
\* brings two such accesses together.
C34_NoMapRace ==
    /\ C_MapUnderLock
    /\ ~DRace

\* A file-store caller is at an access to the map.
C_JsonMapStepReached ==
    \E p \in DOMAIN pcs : C_JsonMapStep(p) /\ pcs[p].op.name = "UpdateCurrency"

\* ------------------- specification: rules added and updated, nothing else
\* AddRecurringExpense with store-generated identifiers, UpdateRecurringExpense
\* and the passing of time: no expense is added, edited or removed directly.
GrowNext ==
    \/ AddRecurringExpenseWith({EmptyId})
    \/ UpdateRecurringExpense
    \/ Tick

SpecGrow == SInit /\ [][GrowNext]_vars

\* ------------------------------------------ claims on instance counts
C_CountJson(s, id) == Cardinality(C_InstancesOf(s.expenses, id))

C_CountDb(d, id) == Cardinality({ x \in d.expenses : x.RecurringID = id })

C_WithinCountJson ==
    \A i \in DOMAIN js.config.RecurringExpenses :
        LET r == js.config.RecurringExpenses[i]
        IN  C_CountJson(js, r.ID) <= r.Occurrences

C_WithinCountDb ==
    \A r \in db.recurring : C_CountDb(db, r.ID) <= r.Occurrences

\* C35: in every state reached by AddRecurringExpense and
\* UpdateRecurringExpense calls with valid rules, the stored expenses that
\* refer to an existing rule are no more than the rule's occurrence count.
C35_WithinOccurrences == C_WithinCountJson /\ C_WithinCountDb

\* Before any call, after a first AddRecurringExpense and after a first
\* update that replaces every instance, the counts are within the rules'
\* occurrence counts.
C_WithinCountAfterFullCall ==
    (\/ calls = 0
     \/ calls = 1 /\ last.op = "AddRecurringExpense"
     \/ calls = 1 /\ last.op = "UpdateRecurringExpense" /\ last.args.all)
    => C35_WithinOccurrences

\* An update that keeps the past instances was made on a stored rule.
C_PartialUpdateReached ==
    /\ last.op = "UpdateRecurringExpense"
    /\ ~last.args.all
    /\ last.err = [js |-> "ok", db |-> "ok"]

\* -------------------------------- claims on the back-reference of an edit
C_UpdatedOk(store) == last.op = "UpdateExpense" /\ last.err[store] = "ok"

C_BackRefKeptJson ==
    C_UpdatedOk("js")
    => \A i \in DOMAIN js.expenses :
          js.expenses[i].ID = last.args.id
          => js.expenses[i].RecurringID = last.pre.js.expenses[i].RecurringID

C_BackRefKeptDb ==
    C_UpdatedOk("db")
    => \A x \in db.expenses, y \in last.pre.db.expenses :
          (x.ID = last.args.id /\ y.ID = last.args.id)
          => x.RecurringID = y.RecurringID

\* C36: UpdateExpense never changes the back-reference of the stored expense:
\* after the update of a materialised instance the expense still carries the
\* identifier of the rule that generated it, so that later rule updates and
\* removals reach it.
C36_BackRefKept == C_BackRefKeptJson /\ C_BackRefKeptDb

\* An instance of the seed rule was edited with a record that carries no
\* back-reference.
C_InstanceEditedReached ==
    /\ C_UpdatedOk("js") /\ C_UpdatedOk("db")
    /\ last.args.expense.RecurringID = EmptyId
    /\ \E x \in last.pre.db.expenses :
          x.ID = last.args.id /\ x.RecurringID = SeedRule.ID

\* The seed rule was then removed with all its instances, and the edited
\* instance is still stored in both stores.
C_InstanceOutlivesRuleReached ==
    /\ last.op = "RemoveRecurringExpense"
    /\ last.args = [id |-> SeedRule.ID, all |-> TRUE]
    /\ last.err = [js |-> "ok", db |-> "ok"]
    /\ HasRow(db.expenses, NewUuid(0))
    /\ \E i \in DOMAIN js.expenses : js.expenses[i].ID = NewUuid(0)

\* An edit that sends the stored back-reference keeps it; nothing else of
\* the call touches it.
C_BackRefAsSent ==
    /\ C_UpdatedOk("js")
       => \A i \in DOMAIN js.expenses :
             (js.expenses[i].ID = last.args.id
              /\ \A k \in DOMAIN js.expenses : js.expenses[k].ID = last.args.id => i <= k)
             => js.expenses[i].RecurringID = last.args.expense.RecurringID
    /\ C_UpdatedOk("db")
       => \A x \in db.expenses :
             x.ID = last.args.id => x.RecurringID = last.args.expense.RecurringID

\* ------------------------- specification: CSV imports and their responses
\* The two import handlers, the counts of the response kept with the call.
\* Beside the files of the other specifications: a row that has not the
\* header's columns, a row whose identifier is stored already, and files
\* whose rows are all imported.

CountFiles ==
    CsvFiles \cup
    { [idExists |-> TRUE, currencyExists |-> TRUE,
       rows |-> <<OldCsvRow, CsvRow, [CsvRow EXCEPT !.ID = NewUuid(0)]>>],
      [idExists |-> FALSE, currencyExists |-> TRUE,
       rows |-> <<CsvRow, [CsvRow EXCEPT !.Name = "tea", !.Tags = << >>]>>] }

OldCountFiles ==
    OldCsvFiles \cup
    { [rows |-> <<CsvRow, OldCsvRow>>],
      [rows |-> <<OldCsvRow, OldCsvRow, [OldCsvRow EXCEPT !.Category = "Income"]>>] }

ImportCSVCounted ==
    \E file \in CountFiles :
        Queried("Handler.ImportCSV", [file |-> file],
                ImportCSV("js", js, file, now, uuid),
                ImportCSV("db", db, file, now, uuid))

ImportOldCSVCounted ==
    \E file \in OldCountFiles :
        Queried("Handler.ImportOldCSV", [file |-> file],
                ImportOldCSV("js", js, file, now, uuid),
                ImportOldCSV("db", db, file, now, uuid))

ImportNext ==
    \/ ImportCSVCounted
    \/ ImportOldCSVCounted
    \/ Tick

SpecImport == SInit /\ [][ImportNext]_vars

\* ------------------------------------------------- claims on the counts
\* An import that reached its row loop.
C_Imported ==
    /\ last.op \in {"Handler.ImportCSV", "Handler.ImportOldCSV"}
    /\ Len(last.args.file.rows) >= 1

C_CountsAddUp(got) ==
    /\ got.total = Len(last.args.file.rows)
    /\ got.imported + got.skipped = got.total

\* C37: for every CSV import, old format or new, that reaches the row loop,
\* each data row is counted once, as imported or as skipped, so that
\* imported + skipped = total_processed, the number of data rows; and the
\* store gains as many expenses as were imported.
C37_RowsCountedOnce ==
    C_Imported
    => /\ C_CountsAddUp(last.got.js)
       /\ C_CountsAddUp(last.got.db)
       /\ Len(js.expenses) = Len(last.pre.js.expenses) + last.got.js.imported
       /\ Cardinality(db.expenses)
            = Cardinality(last.pre.db.expenses) + last.got.db.imported

\* An import with rows of both kinds: skipped for its columns, skipped for
\* its stored identifier, imported.
C37_Witness ==
    /\ C_Imported
    /\ last.op = "Handler.ImportCSV"
    /\ last.got.js = [total |-> 3, imported |-> 1, skipped |-> 2]
    /\ last.got.db = last.got.js

C_OldImportCountedReached ==
    /\ C_Imported
    /\ last.op = "Handler.ImportOldCSV"
    /\ last.got.js.imported >= 1
    /\ last.got.js.skipped >= 1
    /\ last.got.db = last.got.js

====
